---- MODULE Spec2Model ----
(***************************************************************************)
(* Verification model of the agentic detection and repair pipeline of      *)
(* Hackathon_DQ: the applier (backend/main.py apply_fixes), the agents'    *)
(* orchestrator (backend/agents/orchestrator.py), the detectors the        *)
(* checked properties depend on, and the Gemini gateway                    *)
(* (backend/agents/llm_wrapper.py, llm_helper.py).                         *)
(*                                                                         *)
(* Cell values are Python strings, numbers or None.  A cell is modelled    *)
(* by what the code's parsers see in it:                                   *)
(*   k = "null"  None / NaN                                                *)
(*   k = "text"  a string no parser recognises; f is the text              *)
(*   k = "num"   a string that is a bare number; n is in hundredths        *)
(*   k = "meas"  a string "<number><unit>"; n in hundredths, u the unit,   *)
(*               f = "std" for exactly "<d>.<dd> <unit>", "pad" for that   *)
(*               text with surrounding blanks, "raw" for another spelling  *)
(*   k = "ftin"  a compound string "<f>ft <i>in"; n = 100*feet + inches     *)
(*   k = "int"   a JSON number (not a string); n its value                 *)
(*   k = "date"  a string meant as a date; n the day it names, f = "iso"   *)
(*               for YYYY-MM-DD, "us" for MM/DD/YYYY, "words" for a        *)
(*               spelling only the date parser reads, "junk" for a text    *)
(*               the date parser rejects                                   *)
(*   k = "phone" a string meant as a phone number (see normalize_phone)    *)
(*   k = "email" a string with an "@"; u is the domain after it            *)
(***************************************************************************)
EXTENDS Integers, Sequences, FiniteSets, TLC

(***************************************************************************)
(* Cells                                                                   *)
(***************************************************************************)
Cell(k, n, u, f) == [k |-> k, n |-> n, u |-> u, f |-> f]

NaN == Cell("null", 0, "", "nan")
None == Cell("null", 0, "", "None")
Text(s) == Cell("text", 0, "", s)
Num(n) == Cell("num", n, "", "raw")
Meas(n, u, f) == Cell("meas", n, u, f)
FtIn(feet, inches) == Cell("ftin", 100 * feet + inches, "", "raw")
IntVal(n) == Cell("int", n, "", "")
Date(day, f) == Cell("date", day, "", f)

\* Python truthiness of a cell value (None, 0 and "" are falsy; NaN is truthy).
Truthy(v) ==
    CASE v = None -> FALSE
      [] v.k = "int" -> v.n # 0
      [] v.k = "text" -> v.f # ""
      [] OTHER -> TRUE

\* str(v).strip(): surrounding blanks go, the text is otherwise unchanged.
\* str(v): None prints "None", NaN prints "nan", a number prints its digits.
Str(v) ==
    CASE v = None -> Text("None")
      [] v = NaN -> Text("nan")
      [] v.k = "int" -> Num(100 * v.n)
      [] OTHER -> v

StrStrip(v) == IF v.k = "meas" /\ v.f = "pad" THEN Meas(v.n, v.u, "std") ELSE v

\* f"{x:.2f} {unit}"
FormatUnit(n, unit) == Meas(n, unit, "std")

(***************************************************************************)
(* utils/data_cleaning.py: parse_units, convert_units                      *)
(***************************************************************************)
Unparsed == [ok |-> FALSE, n |-> 0, u |-> ""]

\* The units the parser's patterns recognise.
ParserUnits == {"cm", "m", "in", "ft"}

InchHundredths == 254

parse_units(v) ==
    CASE v.k = "ftin" ->
            LET feet == v.n \div 100
                inches == v.n % 100
            IN IF 3 <= feet /\ feet <= 8 /\ 0 <= inches /\ inches <= 11
               THEN [ok |-> TRUE, n |-> (feet * 12 + inches) * InchHundredths, u |-> "cm"]
               \* out of range: the compound patterns are skipped and the plain
               \* "in" pattern matches the inches part of "<f>ft <i>in"
               ELSE [ok |-> TRUE, n |-> 100 * inches, u |-> "in"]
      [] v.k = "meas" /\ v.u \in ParserUnits -> [ok |-> TRUE, n |-> v.n, u |-> v.u]
      [] OTHER -> Unparsed

\* Conversion factors to cm, in hundredths.
to_cm(unit) ==
    CASE unit = "cm" -> 100
      [] unit = "m" -> 10000
      [] unit = "in" -> InchHundredths
      [] unit = "ft" -> 3048

NotConverted == [ok |-> FALSE, n |-> 0]

\* value * to_cm[from] / to_cm[to], rounded to the hundredth that "%.2f" prints.
convert_units(n, from_unit, to_unit) ==
    IF from_unit \notin ParserUnits \/ to_unit \notin ParserUnits
    THEN NotConverted
    ELSE [ok |-> TRUE,
          n |-> (2 * n * to_cm(from_unit) + to_cm(to_unit)) \div (2 * to_cm(to_unit))]

(***************************************************************************)
(* Column names.  The code only asks which keywords a lower-cased column   *)
(* name contains; Keywords(col) lists the keywords of the code's keyword   *)
(* lists that occur in the name (so "employee_height" contains "employee"  *)
(* and "height").                                                          *)
(***************************************************************************)
NoCol == "<None>"

Keywords(col) ==
    CASE col = "height" -> {"height"}
      [] col = "employee_height" -> {"employee", "height"}
      [] col = "start_date" -> {"start", "date"}
      [] col = "employee_start_date" -> {"employee", "start", "date"}
      [] col = "dept" -> {}
      [] col = "city" -> {"city"}
      [] col = "birth_date" -> {"birth", "date"}
      [] col = "job_start" -> {"job", "start"}
      [] col = "phone" -> {"phone"}
      [] col = "company" -> {"company"}
      [] col = "email" -> {"email", "mail"}
      [] col = "country" -> {"country"}
      [] col = "state" -> {"state"}
      [] OTHER -> {}

name_keywords ==
    {"firstname", "first_name", "lastname", "last_name", "fullname", "full_name",
     "username", "user_name", "name", "person", "customer", "employee", "contact"}

city_keywords == {"city", "town", "location", "place"}

is_name_column(col) == Keywords(col) \cap name_keywords # {}

\* A test that takes no column for a city column.
is_city_column_Never(col) == FALSE

is_city_column(col) == Keywords(col) \cap city_keywords # {}

(***************************************************************************)
(* Issues as the applier reads them: row_id is <<>> for None and <<r>> for *)
(* row r; column is NoCol for None.                                        *)
(***************************************************************************)
Issue(row_id, column, issue_type, suggested_value) ==
    [row_id |-> row_id, column |-> column, issue_type |-> issue_type,
     suggested_value |-> suggested_value]

NoRow == <<>>

(***************************************************************************)
(* The applier: backend/main.py apply_fixes                                *)
(***************************************************************************)
VARIABLES
    df,                     \* the DataFrame being repaired: row -> column -> cell
    df_original,            \* the copy kept for comparison
    selected_issues,        \* the selected Issues, in the order given
    unit_preferences,       \* column -> unit, from the request
    columns_to_standardize, \* column -> target unit
    changed_cells,          \* (row, column) -> (old, new)
    fixed_cells,            \* cells the fix loop has written
    issue_idx,              \* position of the fix loop in selected_issues
    apply_pc                \* position in apply_fixes

apply_vars ==
    <<df, df_original, selected_issues, unit_preferences, columns_to_standardize,
      changed_cells, fixed_cells, issue_idx, apply_pc>>

(***************************************************************************)
(* The orchestrator: backend/agents/orchestrator.py AgentsOrchestrator     *)
(***************************************************************************)
VARIABLES
    orch_pc,                \* position in AgentsOrchestrator.run
    agent_idx,              \* position of the for loop in self.agents
    agent_pc,               \* "idle", or "running" inside agent.run
    agent_issues,           \* the list the running agent is building
    all_issues,             \* the orchestrator's accumulated Issues
    invoked,                \* the agents whose run was called, in call order
    raised,                 \* the agents whose run raised
    llm_in_flight,          \* an LLM call of the running agent is in flight
    cancel_requested,       \* a cancellation signal has been sent to the run
    orch_result             \* the value AgentsOrchestrator.run returns

orch_vars ==
    <<orch_pc, agent_idx, agent_pc, agent_issues, all_issues, invoked,
      raised, llm_in_flight, cancel_requested, orch_result>>

(***************************************************************************)
(* The LLM gateway (backend/agents/llm_wrapper.py LLMWrapper) and the      *)
(* workers that call it                                                    *)
(***************************************************************************)
VARIABLES
    current_model,          \* self.current_model
    failed_models,          \* self.failed_models
    quota_exhausted_models, \* self.quota_exhausted_models
    provider,               \* the provider behind self.client
    w_pc,                   \* worker -> position in its call
    models_to_try,          \* worker -> the list its call iterates
    w_idx,                  \* worker -> position of its call in that list
    w_outcome,              \* worker -> outcome of its last attempt
    w_content,              \* worker -> what its last call gave the detector
    w_path,                 \* worker -> what the detector did with it
    w_calls,                \* worker -> calls it has completed
    w_start,                \* worker -> the gateway's state when its call in progress began
    w_log,                  \* worker -> the attempts of its call: <<model, what the code did>>
    last_success            \* the model of the latest attempt that returned a text, "" if none

gw_vars ==
    <<current_model, failed_models, quota_exhausted_models, provider, w_pc,
      models_to_try, w_idx, w_outcome, w_content, w_path, w_calls, w_start, w_log,
      last_success>>

(***************************************************************************)
(* The geographic detector: backend/agents/geographic_enrichment.py        *)
(* GeographicEnrichmentAgent, one instance run several times               *)
(***************************************************************************)
VARIABLES
    geo_rows,               \* dataset_rows: row -> column -> value
    geo_llm,                \* the LLM stub: request -> canned answer
    city_country_cache,     \* self.city_country_cache
    geo_run,                \* which run of the instance is under way
    geo_idx,                \* position of the run in dataset_rows
    geo_current,            \* the Issues of the run under way
    geo_issues,             \* run -> the Issues it returned
    geo_pc                  \* "off", "run" or "done"

geo_vars ==
    <<geo_rows, geo_llm, city_country_cache, geo_run, geo_idx, geo_current,
      geo_issues, geo_pc>>

(***************************************************************************)
(* Detection, repair, detection again: the format detectors                *)
(* (backend/agents/formatting.py, backend/agents/units.py) around          *)
(* apply_fixes                                                             *)
(***************************************************************************)
VARIABLES
    pipe_pc,                \* "off", "detect", "apply" or "done"
    pipe_llm,               \* the LLM the detectors are given
    first_issues,           \* the Issues of the detection before the repair
    second_issues           \* the Issues of the detection after the repair

pipe_vars == <<pipe_pc, pipe_llm, first_issues, second_issues>>

(***************************************************************************)
(* One detector's run over the rows of a dataset (FormattingAgent,         *)
(* CompanyValidationAgent, GeographicEnrichmentAgent, ...): agent.run      *)
(***************************************************************************)
VARIABLES
    det_rows,               \* dataset_rows: row -> column -> cell
    det_llm,                \* the LLM the agent is given
    det_idx,                \* position of the row loop
    det_issues,             \* the list of Issues the run is building
    det_state,              \* what the agent instance keeps between runs
    det_pc                  \* "off", the running agent's step, or "done"

det_vars == <<det_rows, det_llm, det_idx, det_issues, det_state, det_pc>>

(***************************************************************************)
(* The end of apply_fixes (backend/main.py): the request's mode and source *)
(* key, the objects put into the bucket, and the response returned         *)
(***************************************************************************)
VARIABLES
    request_mode,           \* request.mode
    src_key,                \* the key of the source CSV, in pieces
    artifact_sink,          \* the put_object calls that succeeded, in order
    response                \* the ApplyFixesResponse returned

sink_vars == <<request_mode, src_key, artifact_sink, response>>

vars == <<apply_vars, orch_vars, gw_vars, geo_vars, pipe_vars, det_vars, sink_vars>>

outside_apply == <<orch_vars, gw_vars, geo_vars, pipe_vars, det_vars, sink_vars>>

outside_orch == <<apply_vars, gw_vars, geo_vars, pipe_vars, det_vars, sink_vars>>

outside_gw == <<apply_vars, orch_vars, geo_vars, pipe_vars, det_vars, sink_vars>>

outside_geo == <<apply_vars, orch_vars, gw_vars, pipe_vars, det_vars, sink_vars>>

outside_pipe == <<orch_vars, gw_vars, geo_vars, det_vars, sink_vars>>

outside_det == <<apply_vars, orch_vars, gw_vars, geo_vars, pipe_vars, sink_vars>>

NoResponse == "<no response>"

SinkOff ==
    /\ request_mode = "preview"
    /\ src_key = <<>>
    /\ artifact_sink = <<>>
    /\ response = NoResponse

DetOff ==
    /\ det_rows = <<>>
    /\ det_llm = "none"
    /\ det_idx = 0
    /\ det_issues = <<>>
    /\ det_state = <<>>
    /\ det_pc = "off"

Empty == [x \in {} |-> x]

Put(d, key, val) == [x \in DOMAIN d \cup {key} |-> IF x = key THEN val ELSE d[x]]

df_rows == DOMAIN df

df_columns == IF df_rows = {} THEN {} ELSE DOMAIN df[CHOOSE r \in df_rows : TRUE]

\* str(suggested_value).lower() in ['none', 'null', '']
ClearingText == {"none", "null", "", "None", "NULL", "Null"}

IsClearing(v) == v.k = "null" \/ (v.k = "text" /\ v.f \in ClearingText)

\* First loop of apply_fixes: the target unit of each column, from the
\* selected ScaleMismatch issues in list order (the first one of a column wins).
RECURSIVE ScanScaleMismatch(_, _, _)
ScanScaleMismatch(issues, i, acc) ==
    IF i > Len(issues) THEN acc
    ELSE LET issue == issues[i]
             parsed == parse_units(issue.suggested_value)
             take == /\ issue.issue_type = "ScaleMismatch"
                     /\ issue.column # NoCol
                     /\ Truthy(issue.suggested_value)
                     /\ parsed.ok
                     /\ issue.column \notin DOMAIN acc
         IN ScanScaleMismatch(issues, i + 1,
                              IF take THEN Put(acc, issue.column, parsed.u) ELSE acc)

\* Second loop: unit_preferences fill the columns that have no target yet.
ResolveTargets(issues, prefs) ==
    LET from_issues == ScanScaleMismatch(issues, 1, Empty)
    IN [c \in DOMAIN from_issues \cup DOMAIN prefs |->
            IF c \in DOMAIN from_issues THEN from_issues[c] ELSE prefs[c]]

\* A standardization that leaves values already in the target unit as they
\* are spelled.
StandardizeValue_KeepSameUnit(value, old_value, target_unit) ==
    LET parsed == parse_units(StrStrip(value))
        converted == convert_units(parsed.n, parsed.u, target_unit)
    IN IF Truthy(value) /\ parsed.ok /\ parsed.u # target_unit /\ converted.ok
       THEN FormatUnit(converted.n, target_unit)
       ELSE value

\* One cell of the standardization loop: the value written, or the value
\* left in place.
StandardizeValue(value, old_value, target_unit) ==
    LET parsed == parse_units(StrStrip(value))
        converted == convert_units(parsed.n, parsed.u, target_unit)
        new_parsed == IF parsed.u = target_unit
                      THEN FormatUnit(parsed.n, target_unit)
                      ELSE FormatUnit(converted.n, target_unit)
        new_number == FormatUnit(value.n, target_unit)
    IN CASE ~Truthy(value) -> value
         [] parsed.ok /\ parsed.u # target_unit /\ ~converted.ok -> value
         [] parsed.ok -> IF StrStrip(old_value) # new_parsed THEN new_parsed ELSE value
         [] value.k = "num" -> IF StrStrip(old_value) # new_number THEN new_number ELSE value
         [] OTHER -> value

StandardizeAll(frame, original, targets) ==
    [r \in DOMAIN frame |->
        [c \in DOMAIN frame[r] |->
            IF c \in DOMAIN targets
            THEN StandardizeValue(frame[r][c], original[r][c], targets[c])
            ELSE frame[r][c]]]

StandardizeChanges(frame, original, targets) ==
    LET after == StandardizeAll(frame, original, targets)
        cells == {<<r, c>> \in (DOMAIN frame) \X (DOMAIN targets) :
                     c \in DOMAIN frame[r] /\ after[r][c] # frame[r][c]}
    IN [x \in cells |-> <<original[x[1]][x[2]], after[x[1]][x[2]]>>]

\* "if cell_key in fixed_cells: continue" -- a cell the fix loop has written
\* is not written again.
AlreadyFixed_Never(cell_key, fixed) == FALSE

AlreadyFixed(cell_key, fixed) == cell_key \in fixed

\* One iteration of the fix loop: the frame, the change map and the fixed
\* cells after the Issue has been looked at.
FixState(frame, changes, fixed) == [df |-> frame, changed_cells |-> changes, fixed_cells |-> fixed]

ApplyOneIssue(issue, st) ==
    LET column == issue.column
        suggested_value == issue.suggested_value
        row_id == issue.row_id[1]
        cell_key == <<row_id, column>>
        old_value == st.df[row_id][column]
        write(v, shown) ==
            FixState([st.df EXCEPT ![row_id][column] = v],
                     Put(st.changed_cells, cell_key, <<Str(old_value), shown>>),
                     st.fixed_cells \cup {cell_key})
    IN CASE issue.row_id = NoRow \/ column = NoCol -> st
         [] column \notin DOMAIN st.df[CHOOSE r \in DOMAIN st.df : TRUE] -> st
         [] row_id < 0 \/ row_id >= Cardinality(DOMAIN st.df) -> st
         [] issue.issue_type = "ScaleMismatch" -> st
         [] AlreadyFixed(cell_key, st.fixed_cells) -> st
         [] is_name_column(column) -> st
         [] is_city_column(column) -> st
         [] IsClearing(suggested_value) -> write(None, Text("null"))
         [] Truthy(suggested_value) -> write(suggested_value, Str(suggested_value))
         [] OTHER -> st

(***************************************************************************)
(* Inputs of the applier                                                   *)
(***************************************************************************)
NRows == 2
MaxIssues == 2

RowIds == 0 .. (NRows - 1)

\* Values of the measurement column in the first row, and in the other rows.
HeightValues ==
    {Meas(18000, "cm", "raw"), Meas(7000, "in", "raw"), Meas(17780, "cm", "std"),
     Meas(17780, "cm", "pad"), FtIn(5, 10), Num(17500), Text("tall"), NaN}

OtherHeightValues == {Meas(7000, "in", "raw"), Text("tall")}

ApplyFrames ==
    {[r \in RowIds |->
        [height |-> IF r = 0 THEN h0 ELSE h1,
         employee_height |-> Meas(600, "ft", "raw"),
         dept |-> Text("Slaes"),
         city |-> Text("Pune")]] :
     h0 \in HeightValues, h1 \in OtherHeightValues}

ScaleIssues ==
    {Issue(<<0>>, "height", "ScaleMismatch", Meas(17780, "cm", "std")),
     Issue(<<0>>, "height", "ScaleMismatch", Meas(7000, "in", "std")),
     Issue(<<0>>, "employee_height", "ScaleMismatch", Meas(18288, "cm", "std")),
     Issue(NoRow, "height", "ScaleMismatch", Meas(7000, "in", "std"))}

FixIssues ==
    {Issue(<<0>>, "dept", "FuzzyMapping", s) :
        s \in {Text("Sales"), Text("Sale"), None, IntVal(0)}}
    \cup {Issue(<<0>>, "height", "ContextualFill", s) :
            s \in {Meas(7000, "in", "std"), Text("null")}}
    \cup {Issue(<<0>>, "employee_height", "ContextualFill", Text("unknown")),
          Issue(<<0>>, "city", "FuzzyMapping", Text("Puna"))}

SkippedIssues ==
    {Issue(NoRow, "dept", "FuzzyMapping", Text("Sales")),
     Issue(<<NRows>>, "dept", "FuzzyMapping", Text("Sales")),
     Issue(<<-1>>, "dept", "FuzzyMapping", Text("Sales")),
     Issue(<<0>>, "ghost", "FuzzyMapping", Text("Sales")),
     Issue(<<0>>, NoCol, "FuzzyMapping", Text("Sales"))}

IssuePool == ScaleIssues \cup FixIssues \cup SkippedIssues

IssueLists == UNION {[1 .. n -> IssuePool] : n \in 1 .. MaxIssues}

UnitPreferences ==
    {Empty, [c \in {"height"} |-> "cm"], [c \in {"height"} |-> "kg"],
     [c \in {"employee_height"} |-> "cm"]}

(***************************************************************************)
(* apply_fixes, step by step                                               *)
(***************************************************************************)
ApplyInit ==
    /\ df \in ApplyFrames
    /\ df_original = df
    /\ selected_issues \in IssueLists
    /\ unit_preferences \in UnitPreferences
    /\ columns_to_standardize = Empty
    /\ changed_cells = Empty
    /\ fixed_cells = {}
    /\ issue_idx = 1
    /\ apply_pc = "resolve"

ResolveUnitTargets ==
    /\ apply_pc = "resolve"
    /\ columns_to_standardize' = ResolveTargets(selected_issues, unit_preferences)
    /\ apply_pc' = "standardize"
    /\ UNCHANGED <<df, df_original, selected_issues, unit_preferences, changed_cells,
                   fixed_cells, issue_idx>>
    /\ UNCHANGED outside_apply

StandardizeColumns ==
    /\ apply_pc = "standardize"
    /\ LET targets == [c \in DOMAIN columns_to_standardize \cap df_columns |->
                          columns_to_standardize[c]]
       IN /\ df' = StandardizeAll(df, df_original, targets)
          /\ changed_cells' = StandardizeChanges(df, df_original, targets)
    /\ apply_pc' = "fix"
    /\ UNCHANGED <<df_original, selected_issues, unit_preferences, columns_to_standardize,
                   fixed_cells, issue_idx>>
    /\ UNCHANGED outside_apply

ApplyIssue ==
    /\ apply_pc = "fix"
    /\ issue_idx <= Len(selected_issues)
    /\ LET st == ApplyOneIssue(selected_issues[issue_idx],
                               FixState(df, changed_cells, fixed_cells))
       IN /\ df' = st.df
          /\ changed_cells' = st.changed_cells
          /\ fixed_cells' = st.fixed_cells
    /\ issue_idx' = issue_idx + 1
    /\ UNCHANGED <<df_original, selected_issues, unit_preferences, columns_to_standardize,
                   apply_pc>>
    /\ UNCHANGED outside_apply

FinishApply ==
    /\ apply_pc = "fix"
    /\ issue_idx > Len(selected_issues)
    /\ apply_pc' = "done"
    /\ UNCHANGED <<df, df_original, selected_issues, unit_preferences,
                   columns_to_standardize, changed_cells, fixed_cells, issue_idx>>
    /\ UNCHANGED outside_apply

ApplyNext == ResolveUnitTargets \/ StandardizeColumns \/ ApplyIssue \/ FinishApply

(***************************************************************************)
(* Properties of the applier                                               *)
(***************************************************************************)
ApplyDone == apply_pc = "done"

\* The cell an Issue targets, when it is a cell of the frame.
TargetsCell(issue) ==
    /\ issue.row_id # NoRow
    /\ issue.row_id[1] \in df_rows
    /\ issue.column \in df_columns

SameTarget(a, b) == a.row_id = b.row_id /\ a.column = b.column

\* What a cell holds once a suggestion has been written to it.
Written(s) == IF IsClearing(s) THEN None ELSE s

\* An Issue the fix loop can apply.
Applicable(issue) ==
    /\ TargetsCell(issue)
    /\ issue.issue_type # "ScaleMismatch"
    /\ ~is_name_column(issue.column)
    /\ ~is_city_column(issue.column)
    /\ (IsClearing(issue.suggested_value) \/ Truthy(issue.suggested_value))

FirstApplicable(i) ==
    /\ Applicable(selected_issues[i])
    /\ \A k \in 1 .. (i - 1) :
          ~(Applicable(selected_issues[k]) /\ SameTarget(selected_issues[k], selected_issues[i]))

ConflictingPair(i, j) ==
    /\ i < j
    /\ TargetsCell(selected_issues[i])
    /\ SameTarget(selected_issues[i], selected_issues[j])
    /\ selected_issues[i].suggested_value # selected_issues[j].suggested_value

C2_NameColumnsUntouched ==
    ApplyDone =>
        \A r \in df_rows : \A c \in df_columns :
            is_name_column(c) => df[r][c] = df_original[r][c]

IsStandard(v, unit) == v.k = "meas" /\ v.f = "std" /\ v.u = unit

StandardizedColumns == DOMAIN columns_to_standardize \cap df_columns

ShowsOld(key, value) == changed_cells[key][1] = Str(value)

ShowsNew(key, frame) ==
    LET cell == frame[key[1]][key[2]]
    IN IF cell = None THEN changed_cells[key][2] = Text("null")
       ELSE changed_cells[key][2] = Str(cell)

\* C16 as stated: for every entry of the ChangeMap returned by apply_fixes,
\* old_value is the value the cell had in the input rows and new_value is
\* the value the cell has in the output rows ("null" when it was cleared).
C16_ChangeMapIsInputOutputDiff ==
    ApplyDone =>
        \A key \in DOMAIN changed_cells :
            /\ ShowsOld(key, df_original[key[1]][key[2]])
            /\ ShowsNew(key, df)

\* The new_value half holds for every entry.
C16_NewValueIsOutput ==
    ApplyDone => \A key \in DOMAIN changed_cells : ShowsNew(key, df)

\* The old_value half holds for the entries of the cells the column
\* standardization left as they were.
C16_OldValueIsInputUnlessStandardized ==
    ApplyDone =>
        \A key \in DOMAIN changed_cells :
            \/ key[2] \in DOMAIN columns_to_standardize
            \/ ShowsOld(key, df_original[key[1]][key[2]])

\* The targets have been resolved.
TargetsResolved == apply_pc \in {"standardize", "fix", "done"}

\* The selected Issue at position i gives a target unit for column c.
GivesUnit(i, c) ==
    /\ selected_issues[i].issue_type = "ScaleMismatch"
    /\ selected_issues[i].column = c
    /\ Truthy(selected_issues[i].suggested_value)
    /\ parse_units(selected_issues[i].suggested_value).ok

UnitGiven(i) == parse_units(selected_issues[i].suggested_value).u

\* C25 as stated: the target unit of a column is the unit given for it in
\* unit_preferences when the column has an entry there; otherwise it is the
\* unit parsed from the suggested_value of a selected ScaleMismatch Issue on
\* that column.
C25_PreferenceOverIssueUnit ==
    TargetsResolved =>
        \A c \in DOMAIN columns_to_standardize :
            IF c \in DOMAIN unit_preferences
            THEN columns_to_standardize[c] = unit_preferences[c]
            ELSE \E i \in DOMAIN selected_issues :
                    GivesUnit(i, c) /\ columns_to_standardize[c] = UnitGiven(i)

\* What the code resolves: the unit of the first selected ScaleMismatch Issue
\* on the column that gives one, and the unit of unit_preferences only for a
\* column no such Issue names.
C25_IssueUnitOverPreference ==
    TargetsResolved =>
        /\ DOMAIN columns_to_standardize =
              DOMAIN unit_preferences
              \cup {selected_issues[i].column :
                       i \in {k \in DOMAIN selected_issues :
                                 GivesUnit(k, selected_issues[k].column)}}
        /\ \A c \in DOMAIN columns_to_standardize :
              IF \E i \in DOMAIN selected_issues : GivesUnit(i, c)
              THEN \E i \in DOMAIN selected_issues :
                      /\ GivesUnit(i, c)
                      /\ \A k \in 1 .. (i - 1) : ~GivesUnit(k, c)
                      /\ columns_to_standardize[c] = UnitGiven(i)
              ELSE columns_to_standardize[c] = unit_preferences[c]

\* The Issue names no cell of the frame: its row_id is missing or out of
\* range, or its column is unknown.
Unusable(issue) == ~TargetsCell(issue)

\* The column's name has a personal-name or a city keyword.
ProtectedColumn(c) == Keywords(c) \cap (name_keywords \cup city_keywords) # {}

\* A selected Issue the fix loop may write to cell (r, c) for.
FixTargets(issue, r, c) ==
    /\ issue.issue_type # "ScaleMismatch"
    /\ TargetsCell(issue)
    /\ issue.row_id[1] = r /\ issue.column = c
    /\ ~ProtectedColumn(c)

\* Only cells of a standardized column or of a usable Issue differ from the
\* input, and the frame has the rows and the columns of the input.
OnlyTargetedCellsChange ==
    /\ DOMAIN df = DOMAIN df_original
    /\ \A r \in df_rows :
          /\ DOMAIN df[r] = DOMAIN df_original[r]
          /\ \A c \in DOMAIN df[r] :
                df[r][c] # df_original[r][c] =>
                   \/ c \in StandardizedColumns
                   \/ \E i \in DOMAIN selected_issues : FixTargets(selected_issues[i], r, c)

NoPreferenceApplies == DOMAIN unit_preferences \cap df_columns = {}

NothingChanged == df = df_original /\ changed_cells = Empty

SetsTarget(i) ==
    GivesUnit(i, selected_issues[i].column) /\ selected_issues[i].column \in df_columns

agents ==
    <<"EmailValidationAgent", "GeographicEnrichmentAgent", "FormattingAgent",
      "CompanyValidationAgent", "UnitsAgent", "CategoricalAgent", "ImputationAgent",
      "SemanticAgent", "LogicAgent", "ExtractionAgent">>

MaxAgentIssues == 2
MaxRunIssues == 2
MaxRaises == 1

\* The agent the for loop runs at position idx.
AgentAt_Reversed(idx) == agents[Len(agents) + 1 - idx]

AgentAt(idx) == agents[idx]

\* A name is the sequence of its words, as the capital letters divide it.
ClassWords(agent) ==
    CASE agent = "EmailValidationAgent" -> <<"Email", "Validation", "Agent">>
      [] agent = "GeographicEnrichmentAgent" -> <<"Geographic", "Enrichment", "Agent">>
      [] agent = "CompanyValidationAgent" -> <<"Company", "Validation", "Agent">>
      [] agent = "FormattingAgent" -> <<"Formatting", "Agent">>
      [] agent = "UnitsAgent" -> <<"Units", "Agent">>
      [] agent = "CategoricalAgent" -> <<"Categorical", "Agent">>
      [] agent = "ImputationAgent" -> <<"Imputation", "Agent">>
      [] agent = "SemanticAgent" -> <<"Semantic", "Agent">>
      [] agent = "LogicAgent" -> <<"Logic", "Agent">>
      [] OTHER -> <<"Extraction", "Agent">>

\* name.replace('Agent', '')
WithoutAgent(words) == SelectSeq(words, LAMBDA w : w # "Agent")

LowerWord(w) ==
    CASE w = "Validation" -> "validation"
      [] w = "Enrichment" -> "enrichment"
      [] OTHER -> w

\* str.title() of the words written together: they are one run of letters,
\* so the first letter is a capital and every other letter is lower case.
Title(words) == [i \in DOMAIN words |-> IF i = 1 THEN words[i] ELSE LowerWord(words[i])]

\* self.category after __init__: BaseAgent derives it from the class name;
\* two subclasses then assign their own.
CategoryOf(agent) ==
    CASE agent = "CompanyValidationAgent" -> <<"Company", "Validation">>
      [] agent = "GeographicEnrichmentAgent" -> <<"Geographic", "Enrichment">>
      [] OTHER -> Title(WithoutAgent(ClassWords(agent)))

\* An Issue as an agent builds it: seq is its position in the agent's list.
AgentIssue(agent, seq, suggested_value) ==
    [agent |-> agent, category |-> CategoryOf(agent), seq |-> seq,
     suggested_value |-> suggested_value]

SuggestedValues == {None, Text("fix")}

\* issue.model_dump(), with a None suggested_value replaced by ''.
issue_dict(issue) ==
    [issue EXCEPT !.suggested_value = IF @ = None THEN Text("") ELSE @]

Count(seq, agent) == Cardinality({i \in 1 .. Len(seq) : seq[i].agent = agent})

_generate_summary(issues) ==
    [total_issues |-> Len(issues),
     category_counts |->
        [a \in {issues[i].agent : i \in 1 .. Len(issues)} |-> Count(issues, a)]]

NoResult == [returned |-> FALSE]

\* all_issues after the agent's run returned its list: all_issues.extend(issues).
OnReturn(acc, built) == acc \o built

\* all_issues after the agent's run raised: the except branch only continues.
OnRaise_KeepBuilt(acc, built) == acc \o built

OnRaise(acc, built) == acc

OrchIdle ==
    /\ agent_idx = 1
    /\ agent_pc = "idle"
    /\ agent_issues = <<>>
    /\ all_issues = <<>>
    /\ invoked = <<>>
    /\ raised = Empty
    /\ llm_in_flight = FALSE
    /\ cancel_requested = FALSE
    /\ orch_result = NoResult

OrchOff == orch_pc = "off" /\ OrchIdle

OrchInit == orch_pc = "run" /\ OrchIdle

\* issues = agent.run(...) is entered.
StartAgent ==
    /\ orch_pc = "run"
    /\ agent_idx <= Len(agents)
    /\ agent_pc = "idle"
    /\ agent_pc' = "running"
    /\ invoked' = Append(invoked, AgentAt(agent_idx))
    /\ agent_issues' = <<>>
    /\ UNCHANGED <<orch_pc, agent_idx, all_issues, raised, llm_in_flight,
                   cancel_requested, orch_result>>
    /\ UNCHANGED outside_orch

\* The running agent appends an Issue to its own list.
AgentBuildsIssue ==
    /\ agent_pc = "running"
    /\ ~llm_in_flight
    /\ Len(agent_issues) < MaxAgentIssues
    /\ Len(all_issues) + Len(agent_issues) < MaxRunIssues
    /\ \E s \in SuggestedValues :
          agent_issues' =
             Append(agent_issues,
                    AgentIssue(AgentAt(agent_idx), Len(agent_issues) + 1, s))
    /\ UNCHANGED <<orch_pc, agent_idx, agent_pc, all_issues, invoked, raised,
                   llm_in_flight, cancel_requested, orch_result>>
    /\ UNCHANGED outside_orch

\* The running agent calls call_llm.
AgentStartsLLMCall ==
    /\ agent_pc = "running"
    /\ ~llm_in_flight
    /\ llm_in_flight' = TRUE
    /\ UNCHANGED <<orch_pc, agent_idx, agent_pc, agent_issues, all_issues, invoked,
                   raised, cancel_requested, orch_result>>
    /\ UNCHANGED outside_orch

\* call_llm returns to the agent (a text or None, never an exception).
LLMCallReturns ==
    /\ llm_in_flight
    /\ llm_in_flight' = FALSE
    /\ UNCHANGED <<orch_pc, agent_idx, agent_pc, agent_issues, all_issues,
                   invoked, raised, cancel_requested, orch_result>>
    /\ UNCHANGED outside_orch

\* agent.run returns its list; the orchestrator extends all_issues with it.
AgentReturns ==
    /\ agent_pc = "running"
    /\ ~llm_in_flight
    /\ all_issues' = OnReturn(all_issues, agent_issues)
    /\ agent_issues' = <<>>
    /\ agent_pc' = "idle"
    /\ agent_idx' = agent_idx + 1
    /\ UNCHANGED <<orch_pc, invoked, raised, llm_in_flight,
                   cancel_requested, orch_result>>
    /\ UNCHANGED outside_orch

\* agent.run raises; the orchestrator logs and continues with the next agent.
AgentRaises ==
    /\ agent_pc = "running"
    /\ ~llm_in_flight
    /\ Cardinality(DOMAIN raised) < MaxRaises
    /\ all_issues' = OnRaise(all_issues, agent_issues)
    /\ raised' = Put(raised, AgentAt(agent_idx), Len(agent_issues))
    /\ agent_issues' = <<>>
    /\ agent_pc' = "idle"
    /\ agent_idx' = agent_idx + 1
    /\ UNCHANGED <<orch_pc, invoked, llm_in_flight, cancel_requested,
                   orch_result>>
    /\ UNCHANGED outside_orch

\* After the loop: the summary, the serialised Issues, the returned dict.
FinishRun ==
    /\ orch_pc = "run"
    /\ agent_idx > Len(agents)
    /\ orch_result' =
          [agentic_issues |-> [i \in 1 .. Len(all_issues) |-> issue_dict(all_issues[i])],
           agentic_summary |-> _generate_summary(all_issues)]
    /\ orch_pc' = "done"
    /\ UNCHANGED <<agent_idx, agent_pc, agent_issues, all_issues, invoked,
                   raised, llm_in_flight, cancel_requested>>
    /\ UNCHANGED outside_orch

\* A caller asks the run to stop.  run takes no cancellation argument and
\* reads no flag: nothing in the orchestrator depends on cancel_requested.
CancelRequested ==
    /\ orch_pc = "run"
    /\ ~cancel_requested
    /\ cancel_requested' = TRUE
    /\ UNCHANGED <<orch_pc, agent_idx, agent_pc, agent_issues, all_issues,
                   invoked, raised, llm_in_flight, orch_result>>
    /\ UNCHANGED outside_orch

OrchNext ==
    \/ StartAgent
    \/ AgentBuildsIssue
    \/ AgentStartsLLMCall
    \/ LLMCallReturns
    \/ AgentReturns
    \/ AgentRaises
    \/ FinishRun
    \/ CancelRequested

(***************************************************************************)
(* Properties of the orchestrator                                          *)
(***************************************************************************)
OrchDone == orch_pc = "done"

IsPrefix(s, t) == Len(s) <= Len(t) /\ SubSeq(t, 1, Len(s)) = s

\* Position of an agent in the order the specification gives.
SpecOrder ==
    <<"EmailValidationAgent", "GeographicEnrichmentAgent", "FormattingAgent",
      "CompanyValidationAgent", "UnitsAgent", "CategoricalAgent", "ImputationAgent",
      "SemanticAgent", "LogicAgent", "ExtractionAgent">>

SpecPos(agent) == CHOOSE i \in 1 .. Len(SpecOrder) : SpecOrder[i] = agent

InAgentOrder(seq) ==
    \A i, j \in 1 .. Len(seq) : i < j => SpecPos(seq[i].agent) <= SpecPos(seq[j].agent)

\* C6: the agents are invoked one after the other in the order EmailValidation,
\* GeographicEnrichment, Formatting, CompanyValidation, Units, Categorical,
\* Imputation, Semantic, Logic, Extraction: the agents invoked so far are a
\* prefix of that order, an agent runs only when all the agents invoked before
\* it have returned or failed, a finished run has invoked all ten, and in the
\* accumulated and in the returned Issues every Issue of an earlier agent
\* precedes every Issue of a later agent.
C6_AgentsInFixedOrder ==
    /\ IsPrefix(invoked, SpecOrder)
    /\ Len(invoked) = (agent_idx - 1) + (IF agent_pc = "running" THEN 1 ELSE 0)
    /\ InAgentOrder(all_issues)
    /\ OrchDone =>
          /\ invoked = SpecOrder
          /\ InAgentOrder(orch_result.agentic_issues)

C6_Witness ==
    /\ OrchDone
    /\ Len(orch_result.agentic_issues) = 2
    /\ orch_result.agentic_issues[1].agent = "EmailValidationAgent"
    /\ orch_result.agentic_issues[2].agent = "ExtractionAgent"

\* C7: an agent that raises does not abort the run: the step in which it
\* raises leaves the accumulated Issues as they were and moves the loop to the
\* next agent, the accumulated Issues only ever grow at their end, and the
\* finished run has invoked all ten agents and returns the Issues and the
\* summary, with no Issue of an agent that raised.
C7_RaiseDoesNotAbort ==
    /\ [](OrchDone =>
             /\ DOMAIN orch_result = {"agentic_issues", "agentic_summary"}
             /\ Len(invoked) = Len(agents)
             /\ orch_result.agentic_summary.total_issues =
                   Len(orch_result.agentic_issues)
             /\ \A a \in DOMAIN raised : Count(orch_result.agentic_issues, a) = 0)
    /\ [][DOMAIN raised' # DOMAIN raised =>
             /\ all_issues' = all_issues
             /\ orch_pc' = "run"
             /\ agent_idx' = agent_idx + 1]_vars
    /\ [][IsPrefix(all_issues, all_issues')]_vars

C7_Witness ==
    /\ OrchDone
    /\ "FormattingAgent" \in DOMAIN raised
    /\ raised["FormattingAgent"] > 0
    /\ Count(orch_result.agentic_issues, "EmailValidationAgent") = 1
    /\ Count(orch_result.agentic_issues, "UnitsAgent") = 1

\* C10: once a cancellation signal has arrived no new LLM call is started, and
\* a run that finishes after the signal returns its Issues with a status flag
\* that marks the result as partial.
C10_CancelStopsNewCalls ==
    /\ [][cancel_requested /\ ~llm_in_flight => ~llm_in_flight']_vars
    /\ [](OrchDone /\ cancel_requested =>
             /\ "status" \in DOMAIN orch_result
             /\ orch_result.status = "partial")

\* The categories of an Issue, each spelled as the words it is made of.
IssueCategories ==
    {<<"Formatting">>, <<"Units">>, <<"Categorical">>, <<"Imputation">>, <<"Semantic">>,
     <<"Logic">>, <<"Extraction">>, <<"Email", "Validation">>, <<"Company", "Validation">>,
     <<"Geographic", "Enrichment">>}

\* C19 as stated: every Issue a run returns has a category of the set
\* {Formatting, Units, Categorical, Imputation, Semantic, Logic, Extraction,
\* EmailValidation, CompanyValidation, GeographicEnrichment}, spelled exactly
\* so, whichever detector produced it.
C19_CategoriesSpelledAsListed ==
    OrchDone =>
        \A i \in DOMAIN orch_result.agentic_issues :
            orch_result.agentic_issues[i].category \in IssueCategories

\* The same for the Issues of every detector but the email one.
C19_CategoriesButEmail ==
    OrchDone =>
        \A i \in DOMAIN orch_result.agentic_issues :
            orch_result.agentic_issues[i].agent # "EmailValidationAgent" =>
                orch_result.agentic_issues[i].category \in IssueCategories

(***************************************************************************)
(* The LLM gateway: backend/agents/llm_wrapper.py LLMWrapper, called       *)
(* through backend/agents/llm_helper.py call_llm by a detector             *)
(***************************************************************************)
GEMINI_MODELS_FALLBACK ==
    <<"gemini-flash-lite-latest", "gemini-2.5-flash-lite", "gemini-2.0-flash-lite",
      "gemini-2.0-flash-lite-001", "gemini-2.0-flash-lite-preview",
      "gemini-flash-latest", "gemini-2.5-flash", "gemini-2.0-flash",
      "gemini-2.0-flash-001", "gemini-2.0-flash-exp", "gemini-2.5-pro",
      "gemini-3-flash-preview", "gemini-3-pro-preview", "gemini-pro-latest">>

FallbackModels == {GEMINI_MODELS_FALLBACK[i] : i \in 1 .. Len(GEMINI_MODELS_FALLBACK)}

\* The model argument of LLMWrapper.__init__: the default, or a caller's own.
PrimaryModels == {"gemini-flash-lite-latest", "gemini-1.5-flash"}

NWorkers == 2
MaxCalls == 2
Workers == 1 .. NWorkers

ExhaustedThreshold == 10
LimitedAttempts == 3

\* What the provider does with one generate_content call.  A text is a JSON
\* object the detector can read ("json") or any other non-blank text; the
\* other outcomes are the exception raised, by what its message contains:
\* "empty" is the ValueError the gateway raises itself on a blank response,
\* "429", "RESOURCE_EXHAUSTED", "quota", "rate_limit", "404" and "not found"
\* are messages with that text and none of the others, "timeout" a message
\* with none of them.
Outcomes ==
    {"json", "garbage", "empty", "429", "RESOURCE_EXHAUSTED", "quota", "rate_limit",
     "404", "not found", "timeout"}

\* The provider the gateway talks to: the models whose quota is used up, the
\* models it does not know, the models that fail transiently, and the models
\* under a rate limit, which answer one request with a text and refuse
\* another with a 429; every other model answers with a text.
Provider(exhausted, missing, flaky, limited) ==
    [exhausted |-> exhausted, missing |-> missing, flaky |-> flaky, limited |-> limited]

FirstModels(n) == {GEMINI_MODELS_FALLBACK[i] : i \in 1 .. n}

AllModels == FallbackModels \cup PrimaryModels

Providers ==
    {Provider({}, {}, {}, {}),
     Provider(AllModels, {}, {}, {}),
     Provider({}, AllModels, {}, {}),
     Provider({}, {}, AllModels, {}),
     Provider(FirstModels(10) \cup PrimaryModels, {"gemini-2.5-pro"}, {}, {}),
     Provider({}, {"gemini-2.0-flash-lite"}, FirstModels(2), {}),
     Provider(FirstModels(10), {}, AllModels \ FirstModels(10), {}),
     Provider({}, {}, {}, FirstModels(2))}

ProviderOutcomes(p, model) ==
    IF model \in p.exhausted THEN {"429", "RESOURCE_EXHAUSTED", "quota"}
    ELSE IF model \in p.missing THEN {"404", "not found"}
    ELSE IF model \in p.flaky THEN {"empty", "timeout", "rate_limit"}
    ELSE IF model \in p.limited THEN {"json", "429"}
    ELSE {"json", "garbage"}

\* A first statement that keeps the current model whatever the two sets hold.
CurrentIfEligible_Always(cur, failed, exhausted) == <<cur>>

\* _get_models_to_try, first statement: the current model, when eligible.
CurrentIfEligible(cur, failed, exhausted) ==
    IF cur \notin failed /\ cur \notin exhausted THEN <<cur>> ELSE <<>>

InSeq(x, seq) == \E i \in 1 .. Len(seq) : seq[i] = x

\* _get_models_to_try, the loop over the fallback list.
RECURSIVE AppendFallback(_, _, _, _)
AppendFallback(models, i, failed, exhausted) ==
    IF i > Len(GEMINI_MODELS_FALLBACK) THEN models
    ELSE LET model == GEMINI_MODELS_FALLBACK[i]
         IN IF model \notin failed /\ model \notin exhausted /\ ~InSeq(model, models)
            THEN AppendFallback(Append(models, model), i + 1, failed, exhausted)
            ELSE AppendFallback(models, i + 1, failed, exhausted)

_get_models_to_try(cur, failed, exhausted) ==
    AppendFallback(CurrentIfEligible(cur, failed, exhausted), 1, failed, exhausted)

\* A call that never cuts its list, and one that always does.
LimitAttempts_Never(models, exhausted) == models

LimitAttempts_Always(models, exhausted) ==
    SubSeq(models, 1, IF Len(models) < LimitedAttempts THEN Len(models)
                      ELSE LimitedAttempts)

\* chat_completions_create: the cut of the list when many models are exhausted.
LimitAttempts(models, exhausted) ==
    IF Cardinality(exhausted) >= ExhaustedThreshold
    THEN SubSeq(models, 1, IF Len(models) < LimitedAttempts THEN Len(models)
                           ELSE LimitedAttempts)
    ELSE models

\* What chat_completions_create does with the outcome of one attempt.
Reaction_RaiseOnTimeout(outcome) ==
    CASE outcome \in {"json", "garbage"} -> "return"
      [] outcome \in {"429", "RESOURCE_EXHAUSTED", "quota"} -> "mark_exhausted"
      [] outcome \in {"404", "not found"} -> "mark_failed"
      [] outcome = "timeout" -> "raise"
      [] OTHER -> "next"

\* An except branch that takes an empty response for a used-up quota.
Reaction_MarkOnEmpty(outcome) ==
    CASE outcome \in {"json", "garbage"} -> "return"
      [] outcome \in {"429", "RESOURCE_EXHAUSTED", "quota", "empty"} -> "mark_exhausted"
      [] outcome \in {"404", "not found"} -> "mark_failed"
      [] OTHER -> "next"

Reaction(outcome) ==
    CASE outcome \in {"json", "garbage"} -> "return"
      [] outcome \in {"429", "RESOURCE_EXHAUSTED", "quota"} -> "mark_exhausted"
      [] outcome \in {"404", "not found"} -> "mark_failed"
      [] OTHER -> "next"

\* The gateway's state as a call finds it on entry.
StartOf(cur, failed, exhausted) ==
    [current_model |-> cur, failed_models |-> failed, quota_exhausted_models |-> exhausted]

NoStart == StartOf("", {}, {})

\* call_llm: the content of the response, None when it is empty; None as well
\* when the call raised.
NoContent == "<None>"

call_llm(completed, content) ==
    IF completed /\ content \notin {NoContent, ""} THEN content ELSE NoContent

\* The detector's LLM helper (_llm_normalize_units and its like): no content,
\* or a content json.loads rejects, gives None and the detector goes on
\* without the LLM's answer.
DetectorPath(content) == IF content = "json" THEN "llm" ELSE "degraded"

GwIdle ==
    /\ failed_models = {}
    /\ quota_exhausted_models = {}
    /\ w_pc = [w \in Workers |-> "idle"]
    /\ models_to_try = [w \in Workers |-> <<>>]
    /\ w_idx = [w \in Workers |-> 1]
    /\ w_outcome = [w \in Workers |-> "none"]
    /\ w_content = [w \in Workers |-> NoContent]
    /\ w_path = [w \in Workers |-> "none"]
    /\ w_calls = [w \in Workers |-> 0]
    /\ w_start = [w \in Workers |-> NoStart]
    /\ w_log = [w \in Workers |-> <<>>]
    /\ last_success = ""

GwOff ==
    /\ current_model = "gemini-flash-lite-latest"
    /\ provider = Provider({}, {}, {}, {})
    /\ GwIdle

\* LLMWrapper.__init__
GwInit ==
    /\ current_model \in PrimaryModels
    /\ provider \in Providers
    /\ GwIdle

\* The calls made so far, finished or not.
RECURSIVE CallsOf(_)
CallsOf(ws) ==
    IF ws = {} THEN 0
    ELSE LET w == CHOOSE x \in ws : TRUE
         IN w_calls[w] + (IF w_pc[w] # "idle" THEN 1 ELSE 0) + CallsOf(ws \ {w})

CallsStarted == CallsOf(Workers)

\* A detector calls call_llm, which calls chat_completions_create, which
\* enters _get_models_to_try and evaluates its first statement.
BeginComplete(w) ==
    /\ w_pc[w] = "idle"
    /\ CallsStarted < MaxCalls
    /\ models_to_try' =
          [models_to_try EXCEPT
              ![w] = CurrentIfEligible(current_model, failed_models,
                                       quota_exhausted_models)]
    /\ w_pc' = [w_pc EXCEPT ![w] = "select"]
    /\ w_idx' = [w_idx EXCEPT ![w] = 1]
    /\ w_outcome' = [w_outcome EXCEPT ![w] = "none"]
    /\ w_content' = [w_content EXCEPT ![w] = NoContent]
    /\ w_path' = [w_path EXCEPT ![w] = "none"]
    /\ w_start' = [w_start EXCEPT
                      ![w] = StartOf(current_model, failed_models, quota_exhausted_models)]
    /\ w_log' = [w_log EXCEPT ![w] = <<>>]
    /\ UNCHANGED <<current_model, failed_models, quota_exhausted_models, provider,
                   w_calls, last_success>>
    /\ UNCHANGED outside_gw

\* The rest of _get_models_to_try, and the cut of the list.
FinishSelect(w) ==
    /\ w_pc[w] = "select"
    /\ models_to_try' =
          [models_to_try EXCEPT
              ![w] = LimitAttempts(AppendFallback(@, 1, failed_models,
                                                  quota_exhausted_models),
                                   quota_exhausted_models)]
    /\ w_pc' = [w_pc EXCEPT ![w] = "attempt"]
    /\ UNCHANGED <<current_model, failed_models, quota_exhausted_models, provider,
                   w_idx, w_outcome, w_content, w_path, w_calls, w_start, w_log,
                   last_success>>
    /\ UNCHANGED outside_gw

\* One generate_content call to the provider, for the next model of the list.
Attempt(w) ==
    /\ w_pc[w] = "attempt"
    /\ w_idx[w] <= Len(models_to_try[w])
    /\ \E o \in ProviderOutcomes(provider, models_to_try[w][w_idx[w]]) :
          w_outcome' = [w_outcome EXCEPT ![w] = o]
    /\ w_pc' = [w_pc EXCEPT ![w] = "outcome"]
    /\ UNCHANGED <<current_model, failed_models, quota_exhausted_models, provider,
                   models_to_try, w_idx, w_content, w_path, w_calls, w_start, w_log,
                   last_success>>
    /\ UNCHANGED outside_gw

\* The code after the attempt: success, or the except branch.
HandleOutcome(w) ==
    /\ w_pc[w] = "outcome"
    /\ LET model == models_to_try[w][w_idx[w]]
           reaction == Reaction(w_outcome[w])
       IN /\ current_model' = IF reaction = "return" THEN model ELSE current_model
          /\ quota_exhausted_models' =
                IF reaction = "mark_exhausted"
                THEN quota_exhausted_models \cup {model}
                ELSE quota_exhausted_models
          /\ failed_models' =
                IF reaction = "mark_failed" THEN failed_models \cup {model}
                ELSE failed_models
          /\ w_pc' = [w_pc EXCEPT
                         ![w] = CASE reaction = "return" -> "returned"
                                  [] reaction = "raise" -> "raised"
                                  [] OTHER -> "attempt"]
          /\ w_idx' = [w_idx EXCEPT
                          ![w] = IF reaction \in {"return", "raise"} THEN @ ELSE @ + 1]
          /\ w_content' = [w_content EXCEPT
                              ![w] = IF reaction = "return" THEN w_outcome[w] ELSE @]
          /\ w_log' = [w_log EXCEPT ![w] = Append(@, <<model, reaction>>)]
          /\ last_success' = IF reaction = "return" THEN model ELSE last_success
    /\ w_outcome' = [w_outcome EXCEPT ![w] = "none"]
    /\ UNCHANGED <<provider, models_to_try, w_path, w_calls, w_start>>
    /\ UNCHANGED outside_gw

\* The list is used up (or was empty): the response with content None.
ReturnNoContent(w) ==
    /\ w_pc[w] = "attempt"
    /\ w_idx[w] > Len(models_to_try[w])
    /\ w_content' = [w_content EXCEPT ![w] = NoContent]
    /\ w_pc' = [w_pc EXCEPT ![w] = "returned"]
    /\ UNCHANGED <<current_model, failed_models, quota_exhausted_models, provider,
                   models_to_try, w_idx, w_outcome, w_path, w_calls, w_start, w_log,
                   last_success>>
    /\ UNCHANGED outside_gw

\* call_llm hands the content, or None, to the detector, which takes the
\* LLM's answer or goes on without it.
DetectorReceives(w) ==
    /\ w_pc[w] \in {"returned", "raised"}
    /\ LET content == call_llm(w_pc[w] = "returned", w_content[w])
       IN /\ w_content' = [w_content EXCEPT ![w] = content]
          /\ w_path' = [w_path EXCEPT ![w] = DetectorPath(content)]
    /\ w_pc' = [w_pc EXCEPT ![w] = "idle"]
    /\ w_calls' = [w_calls EXCEPT ![w] = @ + 1]
    /\ w_start' = [w_start EXCEPT ![w] = NoStart]
    /\ UNCHANGED <<current_model, failed_models, quota_exhausted_models, provider,
                   models_to_try, w_idx, w_outcome, w_log, last_success>>
    /\ UNCHANGED outside_gw

GwNext ==
    \E w \in Workers :
       \/ BeginComplete(w)
       \/ FinishSelect(w)
       \/ Attempt(w)
       \/ HandleOutcome(w)
       \/ ReturnNoContent(w)
       \/ DetectorReceives(w)

(***************************************************************************)
(* Properties of the gateway                                               *)
(***************************************************************************)
ListUsedUp(w) == w_idx[w] > Len(models_to_try[w])

DetectorDone(w) == w_pc[w] = "idle" /\ w_path[w] # "none"

\* C8: a call to the gateway never raises to its caller; when every candidate
\* it tried failed, or when there was no candidate at all, the call returns
\* no content, call_llm hands None to the detector, and a detector that
\* receives None goes on along its degraded path.
C8_CompleteNeverRaises ==
    \A w \in Workers :
       /\ w_pc[w] # "raised"
       /\ w_pc[w] = "returned" /\ ListUsedUp(w) => w_content[w] = NoContent
       /\ DetectorDone(w) /\ ListUsedUp(w) => w_content[w] = NoContent
       /\ DetectorDone(w) /\ w_content[w] = NoContent => w_path[w] = "degraded"

C8_Witness ==
    \E w1, w2 \in Workers :
       /\ DetectorDone(w1) /\ DetectorDone(w2)
       /\ Len(models_to_try[w1]) = Len(GEMINI_MODELS_FALLBACK) /\ ListUsedUp(w1)
       /\ models_to_try[w2] = <<>>
       /\ w_path[w1] = "degraded" /\ w_path[w2] = "degraded"

\* Worker w is inside the code that computes the list of models from the
\* gateway's state, or inside the code that writes that state.
InStateCode(w) == w_pc[w] \in {"select", "outcome"}

\* C9: the state of the gateway is read and written under one mutex: no two
\* workers are at the same time inside the code that computes the list of
\* models from that state or writes to it.
C9_StateUnderMutex ==
    \A w1, w2 \in Workers : w1 # w2 => ~(InStateCode(w1) /\ InStateCode(w2))

\* The call of the worker is complete: chat_completions_create has returned.
CallComplete(w) == w_pc[w] = "returned"

\* The models the complete call attempted, in order: up to the one that
\* answered, or the whole list when none did.
Attempted(w) ==
    SubSeq(models_to_try[w], 1,
           IF w_idx[w] <= Len(models_to_try[w]) THEN w_idx[w] ELSE Len(models_to_try[w]))

\* The candidates as the gateway's state at the start of the call gives them.
CandidatesAtStart(w) ==
    _get_models_to_try(w_start[w].current_model, w_start[w].failed_models,
                       w_start[w].quota_exhausted_models)

NoneExcludedAtStart(w) ==
    \A i \in DOMAIN Attempted(w) :
        Attempted(w)[i] \notin
            w_start[w].failed_models \cup w_start[w].quota_exhausted_models

NoneTwice(w) ==
    \A i, j \in DOMAIN Attempted(w) : Attempted(w)[i] = Attempted(w)[j] => i = j

\* No other worker's call was under way since this call began.
Alone(w) == \A v \in Workers \ {w} : w_pc[v] = "idle" /\ w_calls[v] = 0

\* C20 as stated: in every complete call the models attempted are a prefix of
\* the list made of current_model, when it is in neither set, followed by
\* the fallback list in its order without the models of either set and
\* without current_model again; no model that was in failed_models or
\* quota_exhausted_models at the start of the call is attempted, and none is
\* attempted twice.
C20_AttemptsArePrefixOfCandidates ==
    \A w \in Workers :
        CallComplete(w) =>
            /\ IsPrefix(Attempted(w), CandidatesAtStart(w))
            /\ NoneExcludedAtStart(w)
            /\ NoneTwice(w)

\* The two exclusions hold for every complete call.
C20_NoExcludedNoRepeat ==
    \A w \in Workers : CallComplete(w) => NoneExcludedAtStart(w) /\ NoneTwice(w)

\* The prefix holds for a call that no other call overlaps.
C20_PrefixWhenAlone ==
    \A w \in Workers :
        CallComplete(w) /\ Alone(w) => IsPrefix(Attempted(w), CandidatesAtStart(w))

\* The outcomes that are a non-empty text.
Texts == {"json", "garbage"}

LogModel(w, i) == w_log[w][i][1]
LogReaction(w, i) == w_log[w][i][2]

\* The call of the worker returned a text.
ReturnedText(w) == CallComplete(w) /\ w_content[w] \in Texts

\* The attempts of the call follow its list, all but the last failed, and
\* the last returned a text.
StoppedAtFirstText(w) ==
    /\ w_log[w] # <<>>
    /\ \A i \in DOMAIN w_log[w] :
          /\ i <= Len(models_to_try[w]) /\ LogModel(w, i) = models_to_try[w][i]
          /\ (LogReaction(w, i) = "return") = (i = Len(w_log[w]))

\* Worker w enters chat_completions_create in this step.
Begins(w) == w_pc[w] = "idle" /\ w_pc'[w] = "select"

\* Worker w finishes building its list in this step.
FinishesSelect(w) == w_pc[w] = "select" /\ w_pc'[w] = "attempt"

C21_Witness ==
    \E v, w \in Workers :
       /\ v # w
       /\ w_calls[v] = 1 /\ Len(w_log[v]) > 1
       /\ w_log[v][Len(w_log[v])] = <<last_success, "return">>
       /\ last_success \notin PrimaryModels
       /\ ReturnedText(w)
       /\ w_log[w] = << <<last_success, "return">> >>

\* Worker w runs the code after one attempt in this step.
Handles(w) == w_pc[w] = "outcome" /\ w_pc'[w] # "outcome"

AttemptedModel(w) == models_to_try[w][w_idx[w]]

\* The call goes on with the next candidate of its list.
Continues(w) == w_pc'[w] = "attempt" /\ w_idx'[w] = w_idx[w] + 1

QuotaErrors == {"429", "RESOURCE_EXHAUSTED", "quota", "rate_limit"}
NotFoundErrors == {"404", "not found"}

MarksAsStated(w, quota_errors) ==
    Handles(w) =>
       /\ w_outcome[w] \in quota_errors =>
             AttemptedModel(w) \in quota_exhausted_models' /\ Continues(w)
       /\ w_outcome[w] \in NotFoundErrors =>
             AttemptedModel(w) \in failed_models' /\ Continues(w)

\* C22 as stated: when an attempt on model m fails with HTTP 429,
\* RESOURCE_EXHAUSTED, or a message with "quota" or "rate_limit", m is added
\* to quota_exhausted_models; when it fails with HTTP 404 or a message with
\* "not found", m is added to failed_models; in both cases the call
\* continues with the next candidate.
C22_ErrorsMarkTheModel ==
    [][\A w \in Workers : MarksAsStated(w, QuotaErrors)]_vars

\* The same without "rate_limit" among the quota errors.
C22_ErrorsButRateLimitMarkTheModel ==
    [][\A w \in Workers : MarksAsStated(w, QuotaErrors \ {"rate_limit"})]_vars

\* An error whose message has "rate_limit" alone marks nothing.
C22_RateLimitMarksNothing ==
    [][\A w \in Workers :
          Handles(w) /\ w_outcome[w] = "rate_limit" =>
             /\ UNCHANGED <<failed_models, quota_exhausted_models>>
             /\ Continues(w)]_vars

\* An empty response, or an error that is neither a quota error nor a
\* not-found error.
Unmarked == {"empty", "timeout"}

\* C23: when an attempt on model m returns an empty response or fails with
\* an error that is neither a quota error nor a not-found error, the gateway
\* leaves failed_models, quota_exhausted_models and current_model unchanged
\* and continues with the next candidate, and m is a candidate of a call
\* that begins then.
C23_TransientFailureMarksNothing ==
    [][\A w \in Workers :
          Handles(w) /\ w_outcome[w] \in Unmarked =>
             /\ UNCHANGED <<failed_models, quota_exhausted_models, current_model>>
             /\ Continues(w)
             /\ AttemptedModel(w) \notin failed_models' \cup quota_exhausted_models'
             /\ \/ AttemptedModel(w) \in FallbackModels
                \/ AttemptedModel(w) = current_model']_vars

\* A call went past a model that failed without a mark, and a later call
\* has that model in its list again.
C23_Witness ==
    \E v, w \in Workers :
       /\ v # w /\ w_calls[v] = 1 /\ w_pc[w] = "attempt"
       /\ \E i \in DOMAIN w_log[v] :
             /\ LogReaction(v, i) = "next"
             /\ InSeq(LogModel(v, i), models_to_try[w])

\* What holds of C21 in every call: the call stops at the first text,
\* current_model is the model that gave it, and the next call starts with
\* that model unless a concurrent call has marked it meanwhile.
C21_StickyUnlessMarkedMeanwhile ==
    /\ [](\A w \in Workers : ReturnedText(w) => StoppedAtFirstText(w))
    /\ [](last_success # "" => current_model = last_success)
    /\ [][\A w \in Workers :
            Begins(w) /\ last_success # ""
                      /\ last_success \notin failed_models \cup quota_exhausted_models
               => models_to_try'[w] = <<last_success>>]_vars

\* The call returned without a text.
ReturnedNull(w) == CallComplete(w) /\ w_content[w] = NoContent

Eligible(m, start) == m \notin start.failed_models \cup start.quota_exhausted_models

SeqSet(seq) == {seq[i] : i \in DOMAIN seq}

\* The models of the call's list were eligible at its start; a candidate
\* of the start that comes before one of them and is not in the list has
\* been marked since the start.
FirstStillEligible(w) ==
    LET at_start == CandidatesAtStart(w)
    IN /\ SeqSet(models_to_try[w]) \subseteq SeqSet(at_start)
       /\ \A i, j \in DOMAIN at_start :
             i < j /\ InSeq(at_start[j], models_to_try[w])
                   /\ ~InSeq(at_start[i], models_to_try[w])
                => at_start[i] \in failed_models \cup quota_exhausted_models

ManyExhaustedAtStart(w) ==
    Cardinality(w_start[w].quota_exhausted_models) >= ExhaustedThreshold

\* C24: when quota_exhausted_models holds 10 or more models at the start of
\* a complete call, the call attempts at most 3 models, the first
\* still-eligible candidates; when fewer than 10 models are exhausted by the
\* end of a call that found no text, the call has attempted every candidate
\* of its start that is still in neither set.
C24_CascadeCap ==
    \A w \in Workers :
       CallComplete(w) =>
          /\ ManyExhaustedAtStart(w) =>
                /\ Len(w_log[w]) <= LimitedAttempts
                /\ Len(models_to_try[w]) <= LimitedAttempts
                /\ FirstStillEligible(w)
          /\ ReturnedNull(w)
             /\ Cardinality(quota_exhausted_models) < ExhaustedThreshold =>
                \A m \in SeqSet(CandidatesAtStart(w)) :
                    m \in failed_models \cup quota_exhausted_models
                    \/ \E i \in DOMAIN w_log[w] : LogModel(w, i) = m

\* A call that began with 10 or more models exhausted and more than 3
\* candidates attempted 3 of them and gave up; and a call that began with
\* fewer than 10 exhausted attempted more than 3.
C24_Witness ==
    \E v, w \in Workers :
       /\ v # w
       /\ ReturnedNull(w) /\ ManyExhaustedAtStart(w)
       /\ Len(CandidatesAtStart(w)) > LimitedAttempts
       /\ Len(w_log[w]) = LimitedAttempts
       /\ w_calls[v] = 1 /\ Len(w_log[v]) > LimitedAttempts

\* C27: failed_models and quota_exhausted_models only grow, and a call
\* attempts no model that was in either set when the call began: a model
\* marked during one call is not attempted by a later call.
C27_MarksAreForGood ==
    /\ [][/\ failed_models \subseteq failed_models'
          /\ quota_exhausted_models \subseteq quota_exhausted_models']_vars
    /\ [](\A w \in Workers :
            \A i \in DOMAIN w_log[w] : Eligible(LogModel(w, i), w_start[w]))

\* A call marked a model in each set, and the next call went through its
\* whole list.
C27_Witness ==
    \E v, w \in Workers :
       /\ v # w /\ w_calls[v] = 1
       /\ \E i \in DOMAIN w_log[v] : LogReaction(v, i) = "mark_failed"
       /\ \E i \in DOMAIN w_log[v] : LogReaction(v, i) = "mark_exhausted"
       /\ CallComplete(w) /\ w_log[w] # <<>>

AllAttemptsFailed(w) ==
    \A i \in DOMAIN w_log[w] : LogReaction(w, i) # "return"

WasAttempted(w, m) == \E i \in DOMAIN w_log[w] : LogModel(w, i) = m

GeoNaN == "<NaN>"

\* No value: None in the code.
Absent == "<absent>"

Lower(s) ==
    CASE s = "Illinois" -> "illinois"
      [] s = "Ontario" -> "ontario"
      [] s = "USA" -> "usa"
      [] s = "Canada" -> "canada"
      [] s = "Microsoft" -> "microsoft"
      [] s = "Google" -> "google"
      [] s = "MS" -> "ms"
      [] OTHER -> s

NullTexts == {"", "null", "none", "n/a", "na", "nan", "nil", "undefined", "missing"}

\* str(value).strip() of a cell
GeoStr(value) == IF value = GeoNaN THEN "nan" ELSE value

_is_null_or_empty(value) ==
    value = Absent \/ value = GeoNaN \/ Lower(value) \in NullTexts

\* A suggested value: a text, or the placeholder written when the AI failed.
Suggest(text) == [text |-> text]

AIFailed(what, city) == [ai_failed |-> what, city |-> city]

RowTag(row_id) == IF row_id = 0 THEN "dataset" ELSE ToString(row_id)

\* BaseAgent._create_issue, without the random suffix of the id.
GeoIssue(row_id, column, issue_type, dirty_value, suggested_value, confidence) ==
    [id |-> <<"GeographicEnrichment", issue_type, RowTag(row_id), column>>,
     row_id |-> row_id, column |-> column, category |-> "GeographicEnrichment",
     issue_type |-> issue_type, dirty_value |-> dirty_value,
     suggested_value |-> suggested_value, confidence |-> confidence]

\* The LLM stub: a canned answer per request; "" is no answer.
NoAnswer == ""

Stub(state_of, country_of_state, country_of_city) ==
    [available |-> TRUE, state_of |-> state_of, country_of_state |-> country_of_state,
     country_of_city |-> country_of_city]

NoLLM ==
    [available |-> FALSE, state_of |-> [c \in {} |-> c], country_of_state |-> NoAnswer,
     country_of_city |-> NoAnswer]

\* _find_state_from_city(city, country, llm): the prompt names the city and,
\* when the row has one, the country.
_find_state_from_city(city_name, country_name, llm) == llm.state_of[country_name]

_find_country_from_state(state_name, llm) == llm.country_of_state

_find_country_from_city(city_name, llm) == llm.country_of_city

StateKey(city) == <<city, "_state">>

CountryKey(name) == <<name, "_country">>

\* One iteration of the loop over dataset_rows: the Issues appended and the
\* cache afterwards.
ProcessGeoRow(row, row_idx, cache, llm, has_state) ==
    LET city_value == IF row.city \in {GeoNaN, ""} THEN Absent ELSE row.city
        state_value == IF has_state THEN GeoStr(row.state) ELSE Absent
        country_value == IF _is_null_or_empty(row.country) THEN Absent ELSE row.country
        state_missing == _is_null_or_empty(state_value)
        issue(column, issue_type, dirty_value, suggested_value, confidence) ==
            <<GeoIssue(row_idx, column, issue_type, dirty_value, suggested_value,
                       confidence)>>
    IN IF city_value = Absent
       THEN [issues |-> <<>>, cache |-> cache]
       ELSE IF has_state
       THEN LET hit == StateKey(city_value) \in DOMAIN cache
                correct_state ==
                    IF hit THEN cache[StateKey(city_value)]
                    ELSE _find_state_from_city(city_value, country_value, llm)
                cache1 ==
                    IF ~hit /\ correct_state # NoAnswer
                    THEN Put(cache, StateKey(city_value), correct_state) ELSE cache
                first ==
                    IF state_missing
                    THEN issue("state", "MissingState", "",
                               IF correct_state # NoAnswer THEN Suggest(correct_state)
                               ELSE AIFailed("state", city_value),
                               IF correct_state # NoAnswer THEN 60 ELSE 40)
                    ELSE <<>>
            IN IF correct_state # NoAnswer
               THEN LET chit == CountryKey(correct_state) \in DOMAIN cache1
                        from_state ==
                            IF chit THEN cache1[CountryKey(correct_state)]
                            ELSE _find_country_from_state(correct_state, llm)
                        cache2 ==
                            IF ~chit /\ from_state # NoAnswer
                            THEN Put(cache1, CountryKey(correct_state), from_state)
                            ELSE cache1
                        suggested_country ==
                            IF from_state # NoAnswer THEN from_state
                            ELSE _find_country_from_city(city_value, llm)
                        state_normalized ==
                            IF state_value \in {Absent, ""} THEN "" ELSE Lower(state_value)
                        about_state ==
                            IF state_normalized # ""
                               /\ state_normalized # Lower(correct_state)
                            THEN issue("state", "IncorrectState", state_value,
                                       Suggest(correct_state), 90)
                            ELSE IF state_normalized = "" \/ state_missing
                            THEN issue("state", "MissingState",
                                       IF state_value = Absent THEN "" ELSE state_value,
                                       Suggest(correct_state), 85)
                            ELSE <<>>
                        about_country ==
                            IF suggested_country = NoAnswer THEN <<>>
                            ELSE IF country_value = Absent
                            THEN issue("country", "MissingCountry", "",
                                       Suggest(suggested_country), 85)
                            ELSE IF Lower(country_value) # Lower(suggested_country)
                            THEN issue("country", "IncorrectCountry", country_value,
                                       Suggest(suggested_country), 85)
                            ELSE <<>>
                    IN [issues |-> first \o about_state \o about_country,
                        cache |-> cache2]
               ELSE LET about_state ==
                            IF state_missing
                            THEN issue("state", "MissingState", "",
                                       AIFailed("state", city_value), 40)
                            ELSE <<>>
                        about_country ==
                            IF country_value = Absent
                            THEN issue("country", "MissingCountry", "",
                                       AIFailed("country", city_value), 40)
                            ELSE <<>>
                    IN [issues |-> first \o about_state \o about_country,
                        cache |-> cache1]
       ELSE IF country_value = Absent
       THEN LET hit == CountryKey(city_value) \in DOMAIN cache
                suggested_country ==
                    IF hit THEN cache[CountryKey(city_value)]
                    ELSE _find_country_from_city(city_value, llm)
                cache1 ==
                    IF ~hit /\ suggested_country # NoAnswer
                    THEN Put(cache, CountryKey(city_value), suggested_country)
                    ELSE cache
            IN [issues |->
                   issue("country", "MissingCountry", "",
                         IF suggested_country # NoAnswer THEN Suggest(suggested_country)
                         ELSE AIFailed("country", city_value),
                         IF suggested_country # NoAnswer THEN 75 ELSE 35),
                cache |-> cache1]
       ELSE [issues |-> <<>>, cache |-> cache]

NGeoRows == 2
GeoRuns == 2

GeoCities == {"Springfield", GeoNaN}
GeoStates == {GeoNaN, "", "illinois", "Ontario"}
GeoCountries == {GeoNaN, "usa", "Canada"}

\* dataset_rows, with or without a state column.
GeoFrames ==
    [0 .. NGeoRows - 1 -> [city : GeoCities, state : GeoStates, country : GeoCountries]]
    \cup [0 .. NGeoRows - 1 -> [city : GeoCities, country : GeoCountries]]

GeoStubs ==
    {Stub(s, cs, cc) :
        s \in [{Absent, "usa", "Canada"} -> {NoAnswer, "Illinois"}],
        cs \in {NoAnswer, "USA"}, cc \in {NoAnswer, "USA"}}
    \cup {NoLLM}

GeoIdle ==
    /\ city_country_cache = Empty
    /\ geo_run = 1
    /\ geo_idx = 0
    /\ geo_current = <<>>
    /\ geo_issues = Empty

GeoOff ==
    /\ geo_pc = "off"
    /\ geo_rows = Empty
    /\ geo_llm = NoLLM
    /\ GeoIdle

\* GeographicEnrichmentAgent.__init__, and the first call of run.
GeoInit ==
    /\ geo_pc = "run"
    /\ geo_rows \in GeoFrames
    /\ geo_llm \in GeoStubs
    /\ GeoIdle

\* One row of the loop; without an LLM client run returns before the loop.
GeoProcessRow ==
    /\ geo_pc = "run"
    /\ geo_llm.available
    /\ geo_idx < NGeoRows
    /\ LET out == ProcessGeoRow(geo_rows[geo_idx], geo_idx, city_country_cache,
                                geo_llm, "state" \in DOMAIN geo_rows[geo_idx])
       IN /\ geo_current' = geo_current \o out.issues
          /\ city_country_cache' = out.cache
    /\ geo_idx' = geo_idx + 1
    /\ UNCHANGED <<geo_rows, geo_llm, geo_run, geo_issues, geo_pc>>
    /\ UNCHANGED outside_geo

\* run returns its Issues; the same instance may be run again.
GeoReturn ==
    /\ geo_pc = "run"
    /\ geo_idx = NGeoRows \/ ~geo_llm.available
    /\ geo_issues' = Put(geo_issues, geo_run, geo_current)
    /\ geo_current' = <<>>
    /\ geo_idx' = 0
    /\ IF geo_run < GeoRuns
       THEN geo_run' = geo_run + 1 /\ geo_pc' = "run"
       ELSE geo_run' = geo_run /\ geo_pc' = "done"
    /\ UNCHANGED <<geo_rows, geo_llm, city_country_cache>>
    /\ UNCHANGED outside_geo

GeoNext == GeoProcessRow \/ GeoReturn

(***************************************************************************)
(* Properties of the geographic detector                                   *)
(***************************************************************************)
GeoDone == geo_pc = "done"

\* C5: with an LLM stub that answers the same request the same way, two runs
\* of detection over the same rows on the same instance return the same
\* sequence of Issues, field by field (the random suffix of the id left out).
C5_RunsAgree == GeoDone => geo_issues[1] = geo_issues[2]

\* The LLM is unavailable: there is no client, or every lookup returns null.
NoLookupAnswers(llm) ==
    /\ \A c \in DOMAIN llm.state_of : llm.state_of[c] = NoAnswer
    /\ llm.country_of_state = NoAnswer
    /\ llm.country_of_city = NoAnswer

LLMUnavailable(llm) == ~llm.available \/ NoLookupAnswers(llm)

HasCity(row) == row.city \notin {GeoNaN, ""}

StateEmpty(row) == "state" \in DOMAIN row /\ _is_null_or_empty(GeoStr(row.state))

CountryEmpty(row) == _is_null_or_empty(row.country)

\* The run returned, for the row, an Issue of the type on the column whose
\* suggestion is the marker written when the AI gave nothing, with the
\* confidence (in hundredths).
FlaggedUnavailable(run, r, column, issue_type, confidence) ==
    \E i \in DOMAIN geo_issues[run] :
        LET issue == geo_issues[run][i]
        IN /\ issue.row_id = r
           /\ issue.column = column
           /\ issue.issue_type = issue_type
           /\ issue.suggested_value = AIFailed(column, geo_rows[r].city)
           /\ issue.confidence = confidence

\* C18 as stated: with the LLM unavailable (no client, or every lookup
\* returning null), every row with a non-empty city and a null or empty
\* state (respectively country) still gets a MissingState (respectively
\* MissingCountry) Issue carrying the "AI unavailable" marker with
\* confidence 0.40.
C18_UnavailableStillFlagged ==
    GeoDone /\ LLMUnavailable(geo_llm) =>
        \A run \in 1 .. GeoRuns : \A r \in DOMAIN geo_rows :
            HasCity(geo_rows[r]) =>
                /\ StateEmpty(geo_rows[r]) =>
                       FlaggedUnavailable(run, r, "state", "MissingState", 40)
                /\ CountryEmpty(geo_rows[r]) =>
                       FlaggedUnavailable(run, r, "country", "MissingCountry", 40)

\* With a client whose lookups all return null and a state column in the
\* dataset, both Issues are emitted with the marker and confidence 0.40.
C18_FlaggedWithClientAndStateColumn ==
    GeoDone /\ geo_llm.available /\ NoLookupAnswers(geo_llm) =>
        \A run \in 1 .. GeoRuns : \A r \in DOMAIN geo_rows :
            HasCity(geo_rows[r]) /\ "state" \in DOMAIN geo_rows[r] =>
                /\ StateEmpty(geo_rows[r]) =>
                       FlaggedUnavailable(run, r, "state", "MissingState", 40)
                /\ CountryEmpty(geo_rows[r]) =>
                       FlaggedUnavailable(run, r, "country", "MissingCountry", 40)

\* Without a client the run returns no Issue at all.
C18_NoClientNoIssues ==
    GeoDone /\ ~geo_llm.available => \A run \in 1 .. GeoRuns : geo_issues[run] = <<>>

\* The Issues of the run on cell (r, column).
IssuesOnCell(run, r, column) ==
    {i \in DOMAIN geo_issues[run] :
        geo_issues[run][i].row_id = r /\ geo_issues[run][i].column = column}

\* C29: in one run the agent emits at most one Issue per (row_id, column): a
\* row with a missing state gets a single MissingState Issue, whether the
\* state lookup succeeded or failed, never two Issues for the same cell.
C29_OneIssuePerCell ==
    GeoDone =>
        \A run \in 1 .. GeoRuns : \A r \in DOMAIN geo_rows :
            \A column \in {"state", "country"} :
                Cardinality(IssuesOnCell(run, r, column)) <= 1

\* What holds: one Issue at most on the country cell; on the state cell one
\* Issue for a wrong state and two for a missing one: a MissingState Issue
\* with confidence 0.60 or 0.40, followed by a second MissingState Issue
\* with 0.85 or 0.40, or by an IncorrectState Issue with 0.90 when the state
\* is a text that stands for null.
C29_MissingStateFlaggedTwice ==
    GeoDone =>
        \A run \in 1 .. GeoRuns : \A r \in DOMAIN geo_rows :
            /\ Cardinality(IssuesOnCell(run, r, "country")) <= 1
            /\ \A i, j \in IssuesOnCell(run, r, "state") :
                  i < j =>
                     /\ StateEmpty(geo_rows[r])
                     /\ j = i + 1
                     /\ geo_issues[run][i].issue_type = "MissingState"
                     /\ <<geo_issues[run][i].confidence, geo_issues[run][j].issue_type,
                          geo_issues[run][j].confidence>>
                           \in {<<60, "MissingState", 85>>, <<40, "MissingState", 40>>,
                                <<60, "IncorrectState", 90>>}
            /\ geo_llm.available /\ HasCity(geo_rows[r]) /\ StateEmpty(geo_rows[r]) =>
                  Cardinality(IssuesOnCell(run, r, "state")) = 2

(***************************************************************************)
(* The format detectors: UnitsAgent.run and the date part of               *)
(* FormattingAgent.run                                                     *)
(***************************************************************************)
\* The columns of a row, in the order of dataset_rows[0].keys().
ColumnOrder ==
    <<"height", "employee_height", "start_date", "employee_start_date", "dept", "city",
      "birth_date", "job_start", "phone", "state", "country",
      "email", "company">>

InFrame(frame, col) == \A r \in DOMAIN frame : col \in DOMAIN frame[r]

Columns(frame) == SelectSeq(ColumnOrder, LAMBDA c : InFrame(frame, c))

\* value and isinstance(value, str) and value.strip()
IsText(v) == v.k \notin {"null", "int"} /\ v # Text("")

measurement_keywords ==
    {"height", "weight", "length", "width", "distance", "size", "measurement"}

date_keywords ==
    {"date", "time", "created", "updated", "timestamp", "dob", "birth", "start", "end"}

is_measurement_column(col) == Keywords(col) \cap measurement_keywords # {}

\* parse_date: the ISO date of the day the string names, or nothing.
parse_date(v) ==
    IF v.k = "date" /\ v.f \in {"iso", "us", "words"}
    THEN [ok |-> TRUE, iso_date |-> Date(v.n, "iso")]
    ELSE [ok |-> FALSE, iso_date |-> None]

\* re.match(r'^\d{4}-\d{2}-\d{2}$', value)
IsIso(v) == v.k = "date" /\ v.f = "iso"

\* DataAnalyzer.analyze_column_types: the type found from the values.
ColumnValues(frame, col) == {r \in DOMAIN frame : Truthy(frame[r][col]) /\ frame[r][col] # NaN}

analysis_type(frame, col) ==
    LET values == ColumnValues(frame, col)
        date_count == Cardinality({r \in values : frame[r][col].k = "date"
                                                   /\ frame[r][col].f \in {"iso", "us"}})
        numeric_count == Cardinality({r \in values : frame[r][col].k = "num"})
    IN IF 10 * numeric_count > 7 * Cardinality(values) THEN "numeric"
       ELSE IF 10 * date_count > 3 * Cardinality(values) THEN "date"
       ELSE "text"

is_date_column(frame, col) ==
    /\ ColumnValues(frame, col) # {}
    /\ Keywords(col) \cap date_keywords # {} \/ analysis_type(frame, col) = "date"

\* The LLM the detectors are given: none, one whose calls all fail, or one
\* that answers every request with a well-formed value.
LLMs == {"none", "down", "up"}

\* _llm_normalize_date and _llm_normalize_units: the normalized value, or None.
_llm_normalize_date(v, llm) == IF llm = "up" THEN Date(v.n, "iso") ELSE None

_llm_normalize_units(v, llm) == IF llm = "up" THEN Meas(18000, "cm", "std") ELSE None

\* FormattingAgent.run, the dates of one cell.
DateIssues(frame, r, col, llm) ==
    LET value == frame[r][col]
    IN IF ~IsText(value) \/ IsIso(value) THEN <<>>
       ELSE IF parse_date(value).ok
       THEN <<Issue(<<r>>, col, "DateFormatting", parse_date(value).iso_date)>>
       ELSE IF llm # "none" /\ Truthy(_llm_normalize_date(value, llm))
       THEN <<Issue(<<r>>, col, "DateFormatting", _llm_normalize_date(value, llm))>>
       ELSE <<>>

\* UnitsAgent.run: the unit most values of the column carry, the first one
\* met among the most frequent; cm when no value of the column parses.
UnitCount(frame, col, unit) ==
    Cardinality({r \in DOMAIN frame : /\ IsText(frame[r][col])
                                      /\ parse_units(frame[r][col]).ok
                                      /\ parse_units(frame[r][col]).u = unit})

FirstRowWith(frame, col, unit) ==
    CHOOSE r \in DOMAIN frame :
       /\ IsText(frame[r][col]) /\ parse_units(frame[r][col]).ok
       /\ parse_units(frame[r][col]).u = unit
       /\ \A q \in DOMAIN frame :
             (IsText(frame[q][col]) /\ parse_units(frame[q][col]).ok
              /\ parse_units(frame[q][col]).u = unit) => r <= q

canonical_unit(frame, col) ==
    LET found == {u \in ParserUnits : UnitCount(frame, col, u) > 0}
        most == {u \in found : \A o \in found :
                    UnitCount(frame, col, o) <= UnitCount(frame, col, u)}
    IN IF found = {} THEN (IF "weight" \in Keywords(col) THEN "kg" ELSE "cm")
       ELSE CHOOSE u \in most :
               \A o \in most : FirstRowWith(frame, col, u) <= FirstRowWith(frame, col, o)

\* UnitsAgent.run, one cell.
UnitIssues(frame, r, col, llm) ==
    LET value == frame[r][col]
        parsed == parse_units(value)
        canonical == canonical_unit(frame, col)
        converted == convert_units(parsed.n, parsed.u, canonical)
    IN IF ~IsText(value) THEN <<>>
       ELSE IF parsed.ok
       THEN IF parsed.u # canonical /\ converted.ok
            THEN <<Issue(<<r>>, col, "ScaleMismatch", FormatUnit(converted.n, canonical))>>
            ELSE <<>>
       ELSE IF llm # "none" /\ Truthy(_llm_normalize_units(value, llm))
       THEN <<Issue(<<r>>, col, "ScaleMismatch", _llm_normalize_units(value, llm))>>
       ELSE <<>>

\* The Issues of one agent: rows in order, and in each row the agent's columns.
CellIssues(agent, frame, r, col, llm) ==
    IF agent = "FormattingAgent" THEN DateIssues(frame, r, col, llm)
    ELSE UnitIssues(frame, r, col, llm)

RECURSIVE RowIssues(_, _, _, _, _, _)
RowIssues(agent, frame, r, cols, i, llm) ==
    IF i > Len(cols) THEN <<>>
    ELSE CellIssues(agent, frame, r, cols[i], llm)
         \o RowIssues(agent, frame, r, cols, i + 1, llm)

RECURSIVE AgentIssues(_, _, _, _, _)
AgentIssues(agent, frame, r, cols, llm) ==
    IF r \notin DOMAIN frame THEN <<>>
    ELSE RowIssues(agent, frame, r, cols, 1, llm)
         \o AgentIssues(agent, frame, r + 1, cols, llm)

FormattingAgent_run(frame, llm) ==
    AgentIssues("FormattingAgent", frame, 0,
                SelectSeq(Columns(frame), LAMBDA c : is_date_column(frame, c)), llm)

UnitsAgent_run(frame, llm) ==
    AgentIssues("UnitsAgent", frame, 0,
                SelectSeq(Columns(frame), is_measurement_column), llm)

\* The Issues of a detection, in the agents' order: Formatting before Units.
DetectIssues(frame, llm) == FormattingAgent_run(frame, llm) \o UnitsAgent_run(frame, llm)

NPipeRows == 2

PipeHeights ==
    {Meas(18000, "cm", "raw"), Meas(7000, "in", "raw"), FtIn(5, 10), Text("tall"),
     Num(17500), NaN}

PipeDates == {Date(1, "iso"), Date(2, "us"), Date(3, "words"), Date(4, "junk"), NaN}

\* The rows detected and repaired: a measurement column and a date column,
\* each under a plain name or under a name that also names a person.
PipeFrames ==
    [0 .. NPipeRows - 1 -> [height : PipeHeights, start_date : PipeDates]]
    \cup [0 .. NPipeRows - 1 -> [employee_height : PipeHeights, start_date : PipeDates]]
    \cup [0 .. NPipeRows - 1 -> [height : PipeHeights, employee_start_date : PipeDates]]

PipePreferences == {Empty, [c \in {"height"} |-> "m"]}

PipeOff ==
    /\ pipe_pc = "off"
    /\ pipe_llm = "none"
    /\ first_issues = <<>>
    /\ second_issues = <<>>

PipeInit ==
    /\ pipe_pc = "detect"
    /\ pipe_llm \in LLMs
    /\ first_issues = <<>>
    /\ second_issues = <<>>
    /\ df \in PipeFrames
    /\ df_original = df
    /\ selected_issues = <<>>
    /\ unit_preferences \in PipePreferences
    /\ columns_to_standardize = Empty
    /\ changed_cells = Empty
    /\ fixed_cells = {}
    /\ issue_idx = 1
    /\ apply_pc = "off"

\* The detection over the rows as given; all its Issues are selected for the
\* repair, in the order detected.
DetectFirst ==
    /\ pipe_pc = "detect"
    /\ first_issues' = DetectIssues(df, pipe_llm)
    /\ selected_issues' = DetectIssues(df, pipe_llm)
    /\ apply_pc' = "resolve"
    /\ pipe_pc' = "apply"
    /\ UNCHANGED <<pipe_llm, second_issues, df, df_original, unit_preferences,
                   columns_to_standardize, changed_cells, fixed_cells, issue_idx>>
    /\ UNCHANGED outside_pipe

\* The detection over the rows apply_fixes produced (its preview).
DetectSecond ==
    /\ pipe_pc = "apply"
    /\ apply_pc = "done"
    /\ second_issues' = DetectIssues(df, pipe_llm)
    /\ pipe_pc' = "done"
    /\ UNCHANGED <<pipe_llm, first_issues>>
    /\ UNCHANGED apply_vars
    /\ UNCHANGED outside_pipe

PipeNext ==
    \/ DetectFirst
    \/ ResolveUnitTargets
    \/ StandardizeColumns
    \/ ApplyIssue
    \/ FinishApply
    \/ DetectSecond

(***************************************************************************)
(* Properties of detection after repair                                    *)
(***************************************************************************)
FormatTypes == {"DateFormatting", "ScaleMismatch", "PhoneNormalization", "FuzzyMapping"}

HadFormatIssue(row_id, column) ==
    \E j \in 1 .. Len(first_issues) :
       /\ first_issues[j].issue_type \in FormatTypes
       /\ first_issues[j].row_id = row_id
       /\ first_issues[j].column = column

\* C4: after all the Issues of a detection have been applied, a second
\* detection over the repaired rows reports no DateFormatting, ScaleMismatch,
\* PhoneNormalization or FuzzyMapping Issue for a cell that had such an Issue
\* in the first detection.
C4_NoRedetection ==
    pipe_pc = "done" =>
       \A i \in 1 .. Len(second_issues) :
          second_issues[i].issue_type \in FormatTypes =>
             ~HadFormatIssue(second_issues[i].row_id, second_issues[i].column)

(***************************************************************************)
(* LogicAgent.run (backend/agents/logic.py), and apply_fixes over the      *)
(* Issues it and the FormattingAgent report                                *)
(***************************************************************************)
\* The LLMs the LogicAgent is given: none, one whose calls all fail, one that
\* labels the birth-date and job-start columns as they are named, and one
\* that answers the labelling request with the two columns exchanged.
LogicLLMs == {"none", "down", "up", "mislabels"}

date_columns(frame) == SelectSeq(Columns(frame), LAMBDA c : is_date_column(frame, c))

Labels(birth, job) == [birth_date_column |-> birth, job_start_column |-> job]

FirstOf(cols, P(_)) ==
    LET found == SelectSeq(cols, P) IN IF found = <<>> THEN NoCol ELSE found[1]

LastOf(cols, P(_), default) ==
    LET found == SelectSeq(cols, P) IN IF found = <<>> THEN default ELSE found[Len(found)]

\* "if llm and len(date_columns) >= 2": the columns the LLM's answer names;
\* nothing when the call gives no content.
llm_labels(frame, llm) ==
    LET cols == date_columns(frame)
        birth == FirstOf(cols, LAMBDA c : "birth" \in Keywords(c))
        other == FirstOf(cols, LAMBDA c : "birth" \notin Keywords(c))
    IN CASE Len(cols) < 2 -> Labels(NoCol, NoCol)
         [] llm = "up" -> Labels(birth, other)
         [] llm = "mislabels" -> Labels(other, birth)
         [] OTHER -> Labels(NoCol, NoCol)

\* "if not birth_date_col or not job_start_col": the last column of each
\* kind, by name, replaces what the LLM gave.
name_labels(frame, found) ==
    LET cols == Columns(frame)
        is_birth(c) == Keywords(c) \cap {"birth", "dob"} # {}
        is_job(c) == Keywords(c) \cap {"job", "start", "hire"} # {} /\ "birth" \notin Keywords(c)
    IN IF found.birth_date_column # NoCol /\ found.job_start_column # NoCol
       THEN found
       ELSE Labels(LastOf(cols, is_birth, found.birth_date_column),
                   LastOf(cols, is_job, found.job_start_column))

resolve_labels(frame, llm) == name_labels(frame, llm_labels(frame, llm))

\* row.get(col): None when the row has no such column.
RowGet(row, col) == IF col \in DOMAIN row THEN row[col] ELSE None

\* A comparison that takes the later job start for the impossible one.
IsParadox_Reversed(job_date, birth_date) == job_date.n > birth_date.n

\* job_date < birth_date, on the ISO strings parse_date returns.
IsParadox(job_date, birth_date) == job_date.n < birth_date.n

\* The job-start-before-birth check of one row.
BirthJobIssues(frame, r, labels) ==
    LET birth_value == RowGet(frame[r], labels.birth_date_column)
        job_start_value == RowGet(frame[r], labels.job_start_column)
        birth_parsed == parse_date(Str(birth_value))
        job_parsed == parse_date(Str(job_start_value))
    IN IF /\ labels.birth_date_column # NoCol /\ labels.job_start_column # NoCol
          /\ Truthy(birth_value) /\ Truthy(job_start_value)
          /\ birth_parsed.ok /\ job_parsed.ok
          /\ IsParadox(job_parsed.iso_date, birth_parsed.iso_date)
       THEN <<Issue(<<r>>, labels.job_start_column, "TemporalParadox", None)>>
       ELSE <<>>

\* The check of the other pairs of date columns of one row: cols are the
\* date columns whose value parses, in the order of date_columns.
RECURSIVE PairIssues(_, _, _, _, _, _)
PairIssues(frame, r, cols, labels, i, j) ==
    IF i > Len(cols) THEN <<>>
    ELSE IF j > Len(cols) THEN PairIssues(frame, r, cols, labels, i + 1, i + 2)
    ELSE LET col1 == cols[i]
             col2 == cols[j]
             handled == /\ labels.birth_date_column # NoCol
                        /\ labels.job_start_column # NoCol
                        /\ col1 \in {labels.birth_date_column, labels.job_start_column}
                        /\ col2 \in {labels.birth_date_column, labels.job_start_column}
             known == \/ "start" \in Keywords(col1) /\ "end" \in Keywords(col2)
                      \/ "created" \in Keywords(col1) /\ "updated" \in Keywords(col2)
             later == parse_date(Str(frame[r][col1])).iso_date.n
                         > parse_date(Str(frame[r][col2])).iso_date.n
         IN (IF later /\ ~handled /\ known
             THEN <<Issue(<<r>>, col1, "TemporalParadox", None)>>
             ELSE <<>>)
            \o PairIssues(frame, r, cols, labels, i, j + 1)

\* _llm_validate_location: valid unless the LLM says otherwise; the LLMs of
\* the model find every combination valid, and no content means valid.
_llm_validate_location(city, state, llm) == TRUE

\* The city/state check of one row (the last city column and the last state
\* column by name).
CrossFieldIssues(frame, r, llm) ==
    LET cols == Columns(frame)
        city_col == LastOf(cols, LAMBDA c : "city" \in Keywords(c), NoCol)
        state_col == LastOf(cols, LAMBDA c : "city" \notin Keywords(c)
                                             /\ Keywords(c) \cap {"state", "province"} # {},
                            NoCol)
    IN IF city_col = NoCol \/ state_col = NoCol THEN <<>>
       ELSE IF ~Truthy(frame[r][city_col]) \/ ~Truthy(frame[r][state_col]) \/ llm = "none"
       THEN <<>>
       ELSE IF _llm_validate_location(frame[r][city_col], frame[r][state_col], llm)
       THEN <<>>
       ELSE <<Issue(<<r>>, state_col, "CrossFieldConflict", Text("[AI failed]"))>>

RECURSIVE LogicRows(_, _, _, _)
LogicRows(frame, r, labels, llm) ==
    IF r \notin DOMAIN frame THEN <<>>
    ELSE LET parsing == SelectSeq(date_columns(frame),
                                  LAMBDA c : /\ Truthy(frame[r][c])
                                             /\ parse_date(Str(frame[r][c])).ok)
         IN BirthJobIssues(frame, r, labels)
            \o (IF Len(date_columns(frame)) >= 2
                THEN PairIssues(frame, r, parsing, labels, 1, 2)
                ELSE <<>>)
            \o CrossFieldIssues(frame, r, llm)
            \o LogicRows(frame, r + 1, labels, llm)

LogicAgent_run(frame, llm) == LogicRows(frame, 0, resolve_labels(frame, llm), llm)

\* The Issues of a detection the repair is given: the FormattingAgent and the
\* UnitsAgent run before the LogicAgent.
LogicDetection(frame, llm) == DetectIssues(frame, llm) \o LogicAgent_run(frame, llm)

RECURSIVE AsSelected(_)
AsSelected(issues) ==
    IF issues = <<>> THEN <<>>
    ELSE <<issue_dict(Head(issues))>> \o AsSelected(Tail(issues))

NLogicRows == 2

LogicDates == {Date(1, "iso"), Date(2, "iso"), Date(1, "us"), Date(3, "junk"), NaN}

\* Rows with a birth date and a job start, the latter under a plain name or
\* under a name that also names a person.
LogicFrames ==
    [0 .. NLogicRows - 1 -> [birth_date : LogicDates, job_start : LogicDates]]
    \cup [0 .. NLogicRows - 1 -> [birth_date : LogicDates, employee_start_date : LogicDates]]

LogicInit ==
    /\ pipe_pc = "logic"
    /\ pipe_llm \in LogicLLMs
    /\ first_issues = <<>>
    /\ second_issues = <<>>
    /\ df \in LogicFrames
    /\ df_original = df
    /\ selected_issues = <<>>
    /\ unit_preferences = Empty
    /\ columns_to_standardize = Empty
    /\ changed_cells = Empty
    /\ fixed_cells = {}
    /\ issue_idx = 1
    /\ apply_pc = "off"

\* The detection; the repair is asked for all its Issues, or for its
\* TemporalParadox Issues only, in the order detected.
DetectLogic ==
    /\ pipe_pc = "logic"
    /\ first_issues' = LogicDetection(df, pipe_llm)
    /\ \E only_paradoxes \in BOOLEAN :
          selected_issues' =
             AsSelected(SelectSeq(first_issues',
                                  LAMBDA i : ~only_paradoxes \/ i.issue_type = "TemporalParadox"))
    /\ apply_pc' = "resolve"
    /\ pipe_pc' = "logic_apply"
    /\ UNCHANGED <<pipe_llm, second_issues, df, df_original, unit_preferences,
                   columns_to_standardize, changed_cells, fixed_cells, issue_idx>>
    /\ UNCHANGED outside_pipe

LogicNext ==
    \/ DetectLogic
    \/ ResolveUnitTargets
    \/ StandardizeColumns
    \/ ApplyIssue
    \/ FinishApply

(***************************************************************************)
(* Properties of the temporal paradox repair                               *)
(***************************************************************************)
LogicDone == pipe_pc = "logic_apply" /\ apply_pc = "done"

\* The job-start column of the rows: the one that is not the birth date.
JobStartColumn == CHOOSE c \in df_columns : c # "birth_date"

\* The row's job start parses to a date earlier than its birth date.
JobBeforeBirth(r) ==
    /\ parse_date(df_original[r][JobStartColumn]).ok
    /\ parse_date(df_original[r]["birth_date"]).ok
    /\ df_original[r][JobStartColumn].n < df_original[r]["birth_date"].n

ParadoxEmitted(r) ==
    \E i \in 1 .. Len(first_issues) :
       first_issues[i] = Issue(<<r>>, JobStartColumn, "TemporalParadox", None)

ClearedAndRecorded(r) ==
    /\ df[r][JobStartColumn] = None
    /\ <<r, JobStartColumn>> \in DOMAIN changed_cells
    /\ changed_cells[<<r, JobStartColumn>>][2] = Text("null")

\* The selected TemporalParadox Issue of the row is the first selected Issue
\* the fix loop can apply to its cell.
ParadoxFirstForCell(r) ==
    \E i \in 1 .. Len(selected_issues) :
       /\ selected_issues[i].issue_type = "TemporalParadox"
       /\ selected_issues[i].row_id = <<r>>
       /\ selected_issues[i].column = JobStartColumn
       /\ FirstApplicable(i)

\* C11 as stated: for every row whose job-start date parses to a date earlier
\* than its birth date, the LogicAgent emits a TemporalParadox Issue on the
\* job-start column with suggested_value null, and after the repair with that
\* Issue selected the job-start cell of the row is empty and the change map
\* records the new value as "null".
C11_ParadoxCleared ==
    LogicDone =>
       \A r \in df_rows : JobBeforeBirth(r) => ParadoxEmitted(r) /\ ClearedAndRecorded(r)

\* C11 amended: for every row whose job-start date parses to a date earlier
\* than its birth date, when the agent's labelling (the LLM's answer, or the
\* column names when the LLM gives none) takes the two columns for what they
\* are, the LogicAgent emits a TemporalParadox Issue on the job-start column
\* with suggested_value null; after the repair with that Issue selected, the
\* job-start cell is empty and the change map records "null" when the
\* job-start column is not a protected column and no Issue selected before it
\* was applied to the same cell.
C11_ParadoxClearedWhenApplicable ==
    LogicDone =>
       \A r \in df_rows :
          JobBeforeBirth(r) =>
             /\ resolve_labels(df_original, pipe_llm) = Labels("birth_date", JobStartColumn)
                   => ParadoxEmitted(r)
             /\ ParadoxFirstForCell(r) => ClearedAndRecorded(r)

\* C11 witness: a row with a job start before its birth date, in US format so
\* that a DateFormatting Issue exists for the same cell; only the paradox is
\* selected, and the cell is cleared and recorded as "null".
C11_Witness ==
    /\ LogicDone
    /\ \E r \in df_rows :
          /\ JobBeforeBirth(r)
          /\ df_original[r][JobStartColumn] = Date(1, "us")
          /\ ParadoxEmitted(r)
          /\ ParadoxFirstForCell(r)
          /\ ClearedAndRecorded(r)

(***************************************************************************)
(* Phone numbers: utils/data_cleaning.py normalize_phone and the phone     *)
(* part of FormattingAgent.run (backend/agents/formatting.py)              *)
(*                                                                         *)
(* A phone string is a cell of kind "phone": u is the "+NN" prefix it      *)
(* starts with ("" for none), n the number of digits that follow once      *)
(* leading zeros are dropped, and f its spelling: "plain" for the prefix   *)
(* and digits alone, "messy" for digits among other characters, "zeros"    *)
(* for a national number of ten zeros, "IN" for "+91 XXXXXXXXXX", "US"     *)
(* for "+1 (XXX) XXX-XXXX", and for what only the normalizer writes        *)
(* "INpad"/"USpad" (zero-filled to ten digits), "USshort" ("+1 <digits>"), *)
(* "generic" ("+<code> <digits>"), "INbracket" ("+91 (XXXXX) XXXXX").      *)
(* Digits after "" are taken not to begin with 91 or 1.                    *)
(***************************************************************************)
Phone(prefix, n, style) == Cell("phone", n, prefix, style)

NoPhone == [ok |-> FALSE, phone |-> None]

Normalized(v) == [ok |-> TRUE, phone |-> v]

\* raw_digits: the prefix is cut ("+91", "+1", or "+" and up to three digits,
\* which takes one digit of the number after a two-digit code), then the
\* leading zeros.
RawDigits(v) ==
    CASE v.k # "phone" -> 0
      [] v.f = "zeros" -> 0
      [] v.u \in {"", "+91", "+1"} -> v.n
      [] OTHER -> IF v.n > 0 THEN v.n - 1 ELSE 0

\* The digits string of a value that leaves no raw digit, as the last
\* fallback of normalize_phone returns it.
DigitsAsIs(v) ==
    CASE v.f = "zeros" /\ v.u = "+1" -> Normalized(Phone("+10", 0, "zeros"))
      [] v.f = "zeros" -> Normalized(Phone(v.u, 0, "zeros"))
      [] OTHER -> Normalized(Phone(v.u, v.n, "plain"))

\* normalize_phone(phone_string, country_code) for a country_code that is
\* given (the FormattingAgent always gives one).
normalize_phone(v, country_code) ==
    LET raw == RawDigits(v)
    IN CASE v.k # "phone" -> NoPhone
         [] raw = 0 -> IF v.u # "" THEN DigitsAsIs(v) ELSE NoPhone
         [] country_code = "IN" ->
               IF raw >= 10 THEN Normalized(Phone("+91", 10, "IN"))
               ELSE IF raw >= 8 THEN Normalized(Phone("+91", raw, "INpad"))
               ELSE Normalized(Phone("+91", raw, "IN"))
         [] country_code = "US" ->
               IF raw >= 10 THEN Normalized(Phone("+1", 10, "US"))
               ELSE IF raw >= 8 THEN Normalized(Phone("+1", raw, "USpad"))
               ELSE Normalized(Phone("+1", raw, "USshort"))
         [] OTHER -> Normalized(Phone(country_code, raw, "generic"))

NoCode == ""

\* Step 1 of the country resolution: the code the country column's value
\* maps to, NoCode when it maps to none.
CountryCodeOf(country) ==
    CASE ~Truthy(country) -> NoCode
      [] country.k # "text" -> NoCode
      [] country.f \in {"India", "india", "IN", "Indian", "Bharat"} -> "IN"
      [] country.f \in {"usa", "USA", "US", "United States"} -> "US"
      [] country.f \in {"gb", "GB"} -> "GB"
      [] OTHER -> NoCode

\* Step 2: value.strip().startswith('+91') / ('+1').
PrefixCode(v) ==
    CASE v.u = "+91" -> "IN"
      [] v.u \in {"+1", "+10"} -> "US"
      [] OTHER -> NoCode

\* _infer_country_from_location: the LLM's two-letter answer for the city
\* (for the state when there is no city), NoCode when it gives none.
_infer_country_from_location(city, state, llm) ==
    LET place == IF Truthy(city) THEN city ELSE state
    IN CASE llm # "up" -> NoCode
         [] ~Truthy(place) -> NoCode
         [] place = Text("Mumbai") -> "IN"
         [] place = Text("Illinois") -> "US"
         [] OTHER -> NoCode

\* The last column of the row whose name contains the keyword, by the
\* elif chain country / city / state.
ContextColumn(frame, kind) ==
    LastOf(Columns(frame),
           LAMBDA c : CASE kind = "country" -> "country" \in Keywords(c)
                        [] kind = "city" -> "country" \notin Keywords(c) /\ "city" \in Keywords(c)
                        [] OTHER -> /\ "country" \notin Keywords(c) /\ "city" \notin Keywords(c)
                                    /\ "state" \in Keywords(c),
           NoCol)

ContextValue(frame, r, kind) ==
    LET col == ContextColumn(frame, kind)
    IN IF col = NoCol THEN None ELSE frame[r][col]

\* DataAnalyzer.detect_phone_country_from_data: the most common value of the
\* first country column when the map knows it, else the phone patterns.
detect_phone_country_from_data(frame, phone_column) ==
    LET country_column == FirstOf(Columns(frame), LAMBDA c : "country" \in Keywords(c))
        voters == IF country_column = NoCol THEN {}
                  ELSE {r \in DOMAIN frame : Truthy(frame[r][country_column])}
        votes(r) == Cardinality({q \in voters : frame[q][country_column] = frame[r][country_column]})
        top == {r \in voters : \A q \in voters : votes(q) <= votes(r)}
        first == CHOOSE r \in top : \A q \in top : r <= q
        most_common == frame[first][country_column]
        known == most_common.k = "text" /\ most_common.f \in {"India", "india", "IN", "Indian",
                                                               "usa", "USA", "US", "United States"}
        digits(v) == IF v.f = "zeros" THEN 10 ELSE v.n
        in_score == Cardinality({r \in DOMAIN frame :
                       /\ frame[r][phone_column].k = "phone"
                       /\ \/ frame[r][phone_column].u = "+91"
                          \/ frame[r][phone_column].u = "" /\ digits(frame[r][phone_column]) = 10})
        us_score == Cardinality({r \in DOMAIN frame :
                       /\ frame[r][phone_column].k = "phone"
                       /\ frame[r][phone_column].u \in {"+1", "+10"}})
    IN IF voters # {} /\ known THEN CountryCodeOf(most_common)
       ELSE IF in_score > us_score THEN "IN" ELSE "US"

phone_keywords == {"phone", "tel", "mobile", "cell"}

\* analysis.get('type') == 'phone': more than 30% of the values look like
\* phones, and the column is not taken for dates or numbers.
phone_type(frame, col) ==
    /\ analysis_type(frame, col) = "text"
    /\ 10 * Cardinality({r \in ColumnValues(frame, col) :
                            /\ frame[r][col].k = "phone"
                            /\ \/ frame[r][col].u \in {"+91", "+1", "+10"}
                               \/ frame[r][col].n >= 10 \/ frame[r][col].f = "zeros"})
          > 3 * Cardinality(ColumnValues(frame, col))

is_phone_column(frame, col) ==
    /\ ColumnValues(frame, col) # {}
    /\ Keywords(col) \cap phone_keywords # {} \/ phone_type(frame, col)

phone_columns(frame) == SelectSeq(Columns(frame), LAMBDA c : is_phone_column(frame, c))

\* A resolution that looks at the phone's prefix before the country column.
country_to_use_PrefixFirst(frame, r, value, llm) ==
    LET from_column == CountryCodeOf(ContextValue(frame, r, "country"))
        city == ContextValue(frame, r, "city")
        state == ContextValue(frame, r, "state")
        inferred == IF llm # "none" /\ (Truthy(city) \/ Truthy(state))
                    THEN _infer_country_from_location(city, state, llm)
                    ELSE NoCode
    IN CASE PrefixCode(value) # NoCode -> PrefixCode(value)
         [] from_column # NoCode -> from_column
         [] inferred # NoCode -> inferred
         [] OTHER -> detect_phone_country_from_data(frame, phone_columns(frame)[1])

\* country_to_use: the country column's code; without one the phone's
\* prefix, then the LLM's answer for the city or state, then the country
\* detected for the phone column.
country_to_use(frame, r, value, llm) ==
    LET from_column == CountryCodeOf(ContextValue(frame, r, "country"))
        city == ContextValue(frame, r, "city")
        state == ContextValue(frame, r, "state")
        inferred == IF llm # "none" /\ (Truthy(city) \/ Truthy(state))
                    THEN _infer_country_from_location(city, state, llm)
                    ELSE NoCode
    IN CASE from_column # NoCode -> from_column
         [] PrefixCode(value) # NoCode -> PrefixCode(value)
         [] inferred # NoCode -> inferred
         [] OTHER -> detect_phone_country_from_data(frame, phone_columns(frame)[1])

\* _llm_normalize_phone: the LLM's own normalization, in the format the
\* prompt asks for, given the country column's value as a hint.
_llm_normalize_phone(value, llm, country_hint) ==
    CASE llm # "up" -> None
      [] CountryCodeOf(country_hint) = "IN" -> Phone("+91", 10, "INbracket")
      [] OTHER -> Phone("+1", 10, "US")

\* The phone Issues of one cell.  (The bracket repair of an Indian result
\* never applies: normalize_phone writes no bracket for IN.)
PhoneIssues(frame, r, col, llm) ==
    LET value == frame[r][col]
        country == country_to_use(frame, r, value, llm)
        normalized == normalize_phone(value, country)
        hint == IF Truthy(ContextValue(frame, r, "country"))
                THEN Str(ContextValue(frame, r, "country")) ELSE None
        by_llm == _llm_normalize_phone(value, llm, hint)
    IN IF ~IsText(value) THEN <<>>
       ELSE IF normalized.ok
       THEN IF normalized.phone # value
            THEN <<Issue(<<r>>, col, "PhoneNormalization", normalized.phone)>>
            ELSE <<>>
       ELSE IF llm # "none" /\ Truthy(by_llm)
       THEN <<Issue(<<r>>, col, "PhoneNormalization", by_llm)>>
       ELSE <<>>

RECURSIVE PhoneRowIssues(_, _, _, _, _)
PhoneRowIssues(frame, r, cols, i, llm) ==
    IF i > Len(cols) THEN <<>>
    ELSE PhoneIssues(frame, r, cols[i], llm) \o PhoneRowIssues(frame, r, cols, i + 1, llm)

\* One row of FormattingAgent.run: its date columns, then its phone columns.
FormattingRow(frame, r, llm) ==
    RowIssues("FormattingAgent", frame, r,
              SelectSeq(Columns(frame), LAMBDA c : is_date_column(frame, c)), 1, llm)
    \o PhoneRowIssues(frame, r, phone_columns(frame), 1, llm)

(***************************************************************************)
(* FormattingAgent.run, row by row                                         *)
(***************************************************************************)
NPhoneRows == 2

PhoneValues ==
    ({Phone(p, n, s) : p \in {"", "+91", "+1", "+44"}, n \in {0, 1, 5, 8, 10, 12},
                       s \in {"plain", "messy"}}
       \ {Phone("", 0, "plain")})
    \cup {Phone(p, 0, "zeros") : p \in {"", "+91", "+1"}}
    \cup {Phone("+91", 10, "IN"), Phone("+1", 10, "US"), NaN}

PhoneCountries == {NaN, Text("India"), Text("usa"), Text("gb"), Text("Canada")}

PhoneCities == {NaN, Text("Mumbai")}

\* The other rows of the dataset: they weigh on the country detected for the
\* phone column.
OtherPhoneRows ==
    [phone : {Phone("", 10, "plain"), Phone("+1", 10, "US")},
     country : {NaN, Text("India")},
     city : {NaN}]

PhoneFrames ==
    {[r \in 0 .. NPhoneRows - 1 |-> IF r = 0 THEN first ELSE other] :
        first \in [phone : PhoneValues, country : PhoneCountries, city : PhoneCities],
        other \in OtherPhoneRows}

FormattingInit ==
    /\ det_rows \in PhoneFrames
    /\ det_llm \in LLMs
    /\ det_idx = 0
    /\ det_issues = <<>>
    /\ det_state = <<>>
    /\ det_pc = "formatting"

FormattingProcessRow ==
    /\ det_pc = "formatting"
    /\ det_idx \in DOMAIN det_rows
    /\ det_issues' = det_issues \o FormattingRow(det_rows, det_idx, det_llm)
    /\ det_idx' = det_idx + 1
    /\ UNCHANGED <<det_rows, det_llm, det_state, det_pc>>
    /\ UNCHANGED outside_det

FormattingReturn ==
    /\ det_pc = "formatting"
    /\ det_idx \notin DOMAIN det_rows
    /\ det_pc' = "done"
    /\ UNCHANGED <<det_rows, det_llm, det_idx, det_issues, det_state>>
    /\ UNCHANGED outside_det

FormattingNext == FormattingProcessRow \/ FormattingReturn

(***************************************************************************)
(* Properties of the phone normalization                                   *)
(***************************************************************************)
\* The value is spelled in the phone format of the country.
FormattedFor(v, country_code) ==
    /\ v.k = "phone"
    /\ CASE country_code = "IN" -> v.u = "+91" /\ v.f \in {"IN", "INpad", "INbracket", "zeros"}
         [] country_code = "US" -> v.u = "+1" /\ v.f \in {"US", "USpad", "USshort"}
         [] OTHER -> v.u = country_code /\ v.f = "generic"

\* The country the specification's priority order gives a row: the country
\* column, else the phone's prefix, else the LLM's city lookup, else the
\* column's hint.
PriorityCountry(r) ==
    LET row == det_rows[r]
        looked_up == IF det_llm = "none" THEN NoCode
                     ELSE _infer_country_from_location(row["city"], None, det_llm)
    IN CASE CountryCodeOf(row["country"]) # NoCode -> CountryCodeOf(row["country"])
         [] row["phone"].u = "+91" -> "IN"
         [] row["phone"].u = "+1" -> "US"
         [] looked_up # NoCode -> looked_up
         [] OTHER -> detect_phone_country_from_data(det_rows, "phone")

IsPhoneIssue(i) == det_issues[i].issue_type = "PhoneNormalization"

\* C12 as stated: every PhoneNormalization suggestion is formatted for the
\* country the row's country column maps to, whatever the phone's prefix, the
\* city and the column hint say; when the country column gives no code, for
\* the country of the phone's prefix, else of the LLM's city lookup, else of
\* the column hint.
C12_CountryPriority ==
    \A i \in 1 .. Len(det_issues) :
       IsPhoneIssue(i) =>
          FormattedFor(det_issues[i].suggested_value, PriorityCountry(det_issues[i].row_id[1]))

\* The same priority, for the rows whose phone string keeps at least one
\* digit once its "+" prefix and its leading zeros are removed: there the
\* country column does decide.
C12_CountryPriorityWithDigits ==
    \A i \in 1 .. Len(det_issues) :
       (IsPhoneIssue(i) /\ RawDigits(det_rows[det_issues[i].row_id[1]]["phone"]) > 0) =>
          FormattedFor(det_issues[i].suggested_value, PriorityCountry(det_issues[i].row_id[1]))

\* The country column says India, the phone carries +1 and ten digits, and
\* the suggestion is the Indian spelling.
C12_Witness ==
    /\ det_pc = "done"
    /\ det_rows[0]["country"] = Text("India")
    /\ det_rows[0]["phone"] = Phone("+1", 10, "messy")
    /\ \E i \in 1 .. Len(det_issues) :
          /\ IsPhoneIssue(i)
          /\ det_issues[i].row_id = <<0>>
          /\ det_issues[i].suggested_value = Phone("+91", 10, "IN")

(***************************************************************************)
(* CompanyValidationAgent (backend/agents/company_validation.py)           *)
(*                                                                         *)
(* An email address is a cell of kind "email" whose u is the domain after  *)
(* the "@", stripped and lower-cased.                                      *)
(***************************************************************************)
Email(domain) == Cell("email", 0, domain, "ok")

generic_domains ==
    {"gmail.com", "yahoo.com", "hotmail.com", "outlook.com", "icloud.com", "mail.com",
     "protonmail.com", "aol.com", "live.com", "msn.com", "ymail.com", "gmx.com",
     "zoho.com", "fastmail.com"}

excluded_keywords ==
    {"height", "weight", "length", "width", "distance", "size", "measurement", "city",
     "state", "country", "address", "street", "email", "phone", "date", "time", "birth",
     "age", "id", "number"}

company_keywords ==
    {"company", "organisation", "organization", "org", "corp", "firm", "employer", "business"}

company_columns(frame) ==
    SelectSeq(Columns(frame),
              LAMBDA c : /\ ColumnValues(frame, c) # {}
                         /\ Keywords(c) \cap excluded_keywords = {}
                         /\ Keywords(c) \cap company_keywords # {})

\* The first column of the row whose name contains "email" or "mail".
email_column(frame) == FirstOf(Columns(frame), LAMBDA c : Keywords(c) \cap {"email", "mail"} # {})

HasDomain(v) == v.k = "email"

rows_with_generic_email(frame) ==
    IF email_column(frame) = NoCol THEN {}
    ELSE {r \in DOMAIN frame : /\ HasDomain(frame[r][email_column(frame)])
                               /\ frame[r][email_column(frame)].u \in generic_domains}

\* _infer_company_from_domain: the company the LLM names for the domain.
_infer_company_from_domain(domain, llm) ==
    CASE llm # "up" -> None
      [] domain = "microsoft.com" -> Text("Microsoft")
      [] domain = "google.com" -> Text("Google")
      [] OTHER -> None

\* email_to_company.get(row_idx)
email_to_company(frame, r, llm) ==
    LET col == email_column(frame)
    IN IF /\ col # NoCol /\ HasDomain(frame[r][col])
          /\ frame[r][col].u \notin generic_domains /\ llm # "none"
       THEN _infer_company_from_domain(frame[r][col].u, llm)
       ELSE None

\* The cells of the company columns that hold a name, rows in order.
RECURSIVE CompanyCells(_, _, _, _)
CompanyCells(frame, cols, r, i) ==
    IF r \notin DOMAIN frame THEN <<>>
    ELSE IF i > Len(cols) THEN CompanyCells(frame, cols, r + 1, 1)
    ELSE (IF IsText(frame[r][cols[i]]) THEN <<<<r, cols[i]>>>> ELSE <<>>)
         \o CompanyCells(frame, cols, r, i + 1)

RECURSIVE Distinct(_)
Distinct(seq) ==
    IF seq = <<>> THEN <<>>
    ELSE LET before == Distinct(SubSeq(seq, 1, Len(seq) - 1))
             last == seq[Len(seq)]
         IN IF \E i \in 1 .. Len(before) : before[i] = last THEN before ELSE Append(before, last)

\* company_names: its keys in insertion order, and the locations of a key.
CompanyNames(frame) ==
    LET cells == CompanyCells(frame, company_columns(frame), 0, 1)
    IN Distinct([i \in 1 .. Len(cells) |-> frame[cells[i][1]][cells[i][2]]])

Locations(frame, company) ==
    SelectSeq(CompanyCells(frame, company_columns(frame), 0, 1),
              LAMBDA cell : frame[cell[1]][cell[2]] = company)

NameLen(company) ==
    CASE company.f \in {"Microsoft", "microsoft"} -> 9
      [] company.f = "Google" -> 6
      [] company.f = "MS" -> 2
      [] OTHER -> 0

\* The first name of the list with the greatest key: max(...) and the head
\* of sorted(..., reverse=True) both keep the first of equal elements.
FirstMax(names, Greater(_, _)) ==
    names[CHOOSE i \in 1 .. Len(names) :
             /\ \A j \in 1 .. Len(names) : ~Greater(names[j], names[i])
             /\ \A j \in 1 .. (i - 1) : Greater(names[i], names[j])]

\* _find_canonical_company_name: the LLM's choice, kept when it is one of the
\* names; the LLM of the model prefers the full official spelling.
_find_canonical_company_name(names, llm) ==
    LET has(s) == \E i \in 1 .. Len(names) : names[i] = Text(s)
    IN CASE llm # "up" -> None
         [] has("Microsoft") -> Text("Microsoft")
         [] has("Google") -> Text("Google")
         [] OTHER -> None

\* The canonical name: the LLM's choice when it gives one, else the most
\* frequent name; without an LLM the longest name, then the most frequent.
CanonicalAmong(names, frame, llm, chosen) ==
    IF Len(names) <= 1 THEN None
    ELSE IF llm # "none"
    THEN (IF chosen # None THEN chosen
          ELSE FirstMax(names, LAMBDA a, b : Len(Locations(frame, a)) > Len(Locations(frame, b))))
    ELSE FirstMax(names,
                  LAMBDA a, b : \/ NameLen(a) > NameLen(b)
                                \/ /\ NameLen(a) = NameLen(b)
                                   /\ Len(Locations(frame, a)) > Len(Locations(frame, b)))

CanonicalOf(names, frame, llm) ==
    CanonicalAmong(names, frame, llm, _find_canonical_company_name(names, llm))

most_common_company(frame, llm) == CanonicalOf(CompanyNames(frame), frame, llm)

NoValidation == [answered |-> FALSE, is_valid |-> TRUE, corrected_name |-> None]

\* _validate_company: the LLM's verdict on a name, given the canonical name of
\* the dataset in the prompt; an abbreviation is to become the canonical name.
_validate_company(company, llm, canonical_name) ==
    CASE llm # "up" -> NoValidation
      [] company = Text("MS") ->
            [answered |-> TRUE, is_valid |-> FALSE,
             corrected_name |-> IF canonical_name # None THEN canonical_name
                                ELSE Text("Microsoft")]
      [] OTHER -> [answered |-> TRUE, is_valid |-> TRUE, corrected_name |-> None]

\* First pass: the company against the one inferred from the email domain.
MismatchAt(frame, r, col, inferred) ==
    IF IsText(frame[r][col]) /\ Lower(frame[r][col].f) # Lower(inferred.f)
    THEN <<Issue(<<r>>, col, "CompanyMismatch", inferred)>>
    ELSE <<>>

RECURSIVE MismatchIssues(_, _, _, _, _)
MismatchIssues(frame, llm, cols, r, i) ==
    IF r \notin DOMAIN frame THEN <<>>
    ELSE IF \/ i > Len(cols)
            \/ r \in rows_with_generic_email(frame)
            \/ email_to_company(frame, r, llm) = None
    THEN MismatchIssues(frame, llm, cols, r + 1, 1)
    ELSE MismatchAt(frame, r, cols[i], email_to_company(frame, r, llm))
         \o MismatchIssues(frame, llm, cols, r, i + 1)

rows_validated_by_email(first_pass) ==
    {first_pass[i].row_id[1] : i \in 1 .. Len(first_pass)}

\* A second pass that keeps the locations of the rows with a generic email.
locations_to_validate_All(frame, company) == Locations(frame, company)

locations_to_validate(frame, company) ==
    SelectSeq(Locations(frame, company),
              LAMBDA cell : cell[1] \notin rows_with_generic_email(frame))

\* Second pass: the cached verdict, else the LLM's.
validation_result_of(company, llm, canonical, cache) ==
    IF company \in DOMAIN cache THEN cache[company]
    ELSE IF llm # "none" THEN _validate_company(company, llm, canonical)
    ELSE NoValidation

cache_after(cache, company, validation_result) ==
    IF company \notin DOMAIN cache /\ validation_result.answered
    THEN Put(cache, company, validation_result)
    ELSE cache

\* a or b or c
FirstTruthy(a, b, c) == IF Truthy(a) THEN a ELSE IF Truthy(b) THEN b ELSE c

suggested_value_of(validation_result, canonical, company, several) ==
    CASE validation_result.answered /\ ~validation_result.is_valid ->
            FirstTruthy(validation_result.corrected_name, canonical, company)
      [] validation_result.answered /\ Truthy(validation_result.corrected_name) ->
            validation_result.corrected_name
      [] ~validation_result.answered /\ several /\ Truthy(canonical) -> canonical
      [] OTHER -> company

ValidationIssues(where, validated, company, suggested_value) ==
    IF suggested_value = company THEN <<>>
    ELSE LET flagged == SelectSeq(where, LAMBDA cell : cell[1] \notin validated)
         IN [i \in 1 .. Len(flagged) |->
                Issue(<<flagged[i][1]>>, flagged[i][2], "CompanyValidation", suggested_value)]

\* Second pass, one company name: the Issues it adds and the cache after it.
ValidateWith(company, cache, canonical, several, where, validated, validation_result) ==
    IF where = <<>> \/ (company = canonical /\ several)
    THEN [issues |-> <<>>, cache |-> cache]
    ELSE [issues |-> ValidationIssues(where, validated, company,
                                      suggested_value_of(validation_result, canonical,
                                                         company, several)),
          cache |-> cache_after(cache, company, validation_result)]

ValidateOne(frame, llm, company, cache, canonical, several, validated) ==
    ValidateWith(company, cache, canonical, several, locations_to_validate(frame, company),
                 validated, validation_result_of(company, llm, canonical, cache))

Extend(acc, one) == [issues |-> acc.issues \o one.issues, cache |-> one.cache]

RECURSIVE ValidateAll(_, _, _, _, _, _, _)
ValidateAll(frame, llm, names, i, acc, canonical, validated) ==
    IF i > Len(names) THEN acc
    ELSE ValidateAll(frame, llm, names, i + 1,
                     Extend(acc, ValidateOne(frame, llm, names[i], acc.cache, canonical,
                                             Len(names) > 1, validated)),
                     canonical, validated)

BothPasses(frame, llm, company_cache, names, first_pass) ==
    ValidateAll(frame, llm, names, 1, [issues |-> first_pass, cache |-> company_cache],
                CanonicalOf(names, frame, llm), rows_validated_by_email(first_pass))

\* CompanyValidationAgent.run on an instance whose cache is company_cache.
CompanyValidationAgent_run(frame, llm, company_cache) ==
    IF company_columns(frame) = <<>> THEN [issues |-> <<>>, cache |-> company_cache]
    ELSE BothPasses(frame, llm, company_cache, CompanyNames(frame),
                    MismatchIssues(frame, llm, company_columns(frame), 0, 1))

(***************************************************************************)
(* Runs of one CompanyValidationAgent instance: each run is given a        *)
(* dataset, and the instance keeps its company_cache from run to run.      *)
(***************************************************************************)
NCompanyRows == 2

CompanyRuns == 2

CompanyEmails == {Email("gmail.com"), Email("microsoft.com"), NaN}

CompanyValues == {Text("Microsoft"), Text("microsoft"), Text("MS"), Text("Google"), NaN}

CompanyFrames == [0 .. NCompanyRows - 1 -> [email : CompanyEmails, company : CompanyValues]]

\* CompanyValidationAgent.__init__ and the first call of run.
CompanyInit ==
    /\ det_rows \in CompanyFrames
    /\ det_llm \in LLMs
    /\ det_idx = 1
    /\ det_issues = <<>>
    /\ det_state = <<>>
    /\ det_pc = "company"

CompanyRun ==
    /\ det_pc = "company"
    /\ LET result == CompanyValidationAgent_run(det_rows, det_llm, det_state)
       IN /\ det_issues' = result.issues
          /\ det_state' = result.cache
    /\ det_pc' = "returned"
    /\ UNCHANGED <<det_rows, det_llm, det_idx>>
    /\ UNCHANGED outside_det

\* The caller hands the next dataset to the same instance.
CompanyNextDataset ==
    /\ det_pc = "returned"
    /\ det_idx < CompanyRuns
    /\ det_rows' \in CompanyFrames
    /\ det_idx' = det_idx + 1
    /\ det_issues' = <<>>
    /\ det_pc' = "company"
    /\ UNCHANGED <<det_llm, det_state>>
    /\ UNCHANGED outside_det

CompanyNext == CompanyRun \/ CompanyNextDataset

(***************************************************************************)
(* Properties of the company validation                                    *)
(***************************************************************************)
CompanyReturned == det_pc = "returned"

\* The row's email address has a domain of the generic list.
GenericEmailRow(r) ==
    /\ r \in DOMAIN det_rows
    /\ det_rows[r].email.k = "email"
    /\ det_rows[r].email.u \in generic_domains

IssuesOfRow(r) ==
    SelectSeq(det_issues, LAMBDA i : \E k \in DOMAIN i.row_id : i.row_id[k] = r)

\* C13: when a run of the CompanyValidation agent has returned, none of its
\* Issues (CompanyMismatch or CompanyValidation) is for a row whose email
\* domain is in the generic list, whatever the company of that row and
\* whatever name is canonical for the other rows.
C13_GenericEmailRowsSkipped ==
    CompanyReturned => \A r \in DOMAIN det_rows : GenericEmailRow(r) => IssuesOfRow(r) = <<>>

\* A run returned Issues for another row while a row with a generic email
\* holds a company name that is not the canonical one of the dataset.
C13_Witness ==
    /\ CompanyReturned
    /\ det_issues # <<>>
    /\ \E r \in DOMAIN det_rows :
          /\ GenericEmailRow(r)
          /\ IsText(det_rows[r].company)
          /\ most_common_company(det_rows, det_llm) \notin {None, det_rows[r].company}
          /\ IssuesOfRow(r) = <<>>

\* C15 as stated: no detector carries state from one run into the next, so
\* the Issues a run of the CompanyValidation agent returns are the ones a
\* fresh instance returns for the same rows and the same LLM, whichever
\* dataset the instance processed before.
C15_RunIndependentOfEarlierRuns ==
    CompanyReturned =>
        det_issues = CompanyValidationAgent_run(det_rows, det_llm, <<>>).issues

\* The first run of an instance starts from an empty cache.
C15_FirstRunIsFresh ==
    CompanyReturned /\ det_idx = 1 =>
        det_issues = CompanyValidationAgent_run(det_rows, det_llm, <<>>).issues

(***************************************************************************)
(* One orchestrator run over the location and phone columns: the           *)
(* GeographicEnrichmentAgent, then the FormattingAgent, both given the     *)
(* same dataset_rows and the same LLM client                               *)
(* (backend/agents/orchestrator.py, AgentsOrchestrator.run).               *)
(***************************************************************************)
\* The cell as the geographic agent reads it.
GeoValue(v) == IF v = NaN THEN GeoNaN ELSE IF v = None THEN Absent ELSE v.f

GeoRowOf(row) == [city |-> GeoValue(row.city), country |-> GeoValue(row.country)]

\* The client as the geographic agent meets it: its lookups name the country
\* of the city in full, where the formatting lookup gives the code.
GeoStubOf(llm) ==
    CASE llm = "none" -> NoLLM
      [] llm = "up" -> Stub([c \in {Absent} |-> NoAnswer], NoAnswer, "India")
      [] OTHER -> Stub([c \in {Absent} |-> NoAnswer], NoAnswer, NoAnswer)

\* GeographicEnrichmentAgent.run on a fresh instance: the loop over the rows.
RECURSIVE GeoRowsFrom(_, _, _, _)
GeoRowsFrom(frame, r, cache, llm) ==
    IF r \notin DOMAIN frame THEN <<>>
    ELSE LET out == ProcessGeoRow(GeoRowOf(frame[r]), r, cache, llm, FALSE)
         IN out.issues \o GeoRowsFrom(frame, r + 1, out.cache, llm)

GeographicEnrichmentAgent_run(frame, llm) ==
    IF ~GeoStubOf(llm).available THEN <<>> ELSE GeoRowsFrom(frame, 0, Empty, GeoStubOf(llm))

EnrichInit ==
    /\ det_rows \in PhoneFrames
    /\ det_llm \in LLMs
    /\ det_idx = 0
    /\ det_issues = <<>>
    /\ det_state = <<>>
    /\ det_pc = "geographic"

\* The geographic agent returns its Issues to the orchestrator; the rows
\* handed to the next agent are the ones it was given.
EnrichGeographic ==
    /\ det_pc = "geographic"
    /\ det_state' = GeographicEnrichmentAgent_run(det_rows, det_llm)
    /\ det_pc' = "formatting"
    /\ UNCHANGED <<det_rows, det_llm, det_idx, det_issues>>
    /\ UNCHANGED outside_det

EnrichNext == EnrichGeographic \/ FormattingProcessRow \/ FormattingReturn

(***************************************************************************)
(* Properties of the run over the location and phone columns               *)
(***************************************************************************)
EnrichDone == det_pc = "done" /\ det_state # <<>>

\* The geographic agent resolved the country for the row: its MissingCountry
\* Issue suggests a country, not the marker of a failed lookup.
ResolvedCountry(r, country) ==
    \E i \in DOMAIN det_state :
        /\ det_state[i].row_id = r
        /\ det_state[i].issue_type = "MissingCountry"
        /\ det_state[i].suggested_value = Suggest(country)

PhoneIssuesOfRow(r) ==
    SelectSeq(det_issues, LAMBDA i : i.row_id = <<r>> /\ i.issue_type = "PhoneNormalization")

\* The formatting agent's output for the row's phone is the one that
\* normalize_phone gives for the country.
NormalizedFor(r, country) ==
    LET value == det_rows[r].phone
        normalized == normalize_phone(value, CountryCodeOf(Text(country)))
    IN normalized.ok =>
          /\ \A i \in DOMAIN PhoneIssuesOfRow(r) :
                PhoneIssuesOfRow(r)[i].suggested_value = normalized.phone
          /\ normalized.phone # value => PhoneIssuesOfRow(r) # <<>>

\* C14 as stated: in one run, for every row whose country cell is empty and
\* for which the geographic agent resolved a country, the formatting agent,
\* which runs afterwards, normalizes the row's phone for that country.
C14_PhoneUsesResolvedCountry ==
    EnrichDone =>
        \A r \in DOMAIN det_rows : \A country \in {"India", "USA"} :
            /\ ~Truthy(det_rows[r].country) \/ det_rows[r].country = NaN
            /\ ResolvedCountry(r, country)
            /\ IsText(det_rows[r].phone)
            => NormalizedFor(r, country)

\* The same for the phones that carry no "+91" or "+1" prefix of their own.
C14_PhoneWithoutPrefixUsesResolvedCountry ==
    EnrichDone =>
        \A r \in DOMAIN det_rows : \A country \in {"India", "USA"} :
            /\ ~Truthy(det_rows[r].country) \/ det_rows[r].country = NaN
            /\ ResolvedCountry(r, country)
            /\ IsText(det_rows[r].phone)
            /\ PrefixCode(det_rows[r].phone) = NoCode
            => NormalizedFor(r, country)

(***************************************************************************)
(* apply_fixes, from the repaired DataFrame to the response                *)
(* (backend/main.py, after the fix loop)                                   *)
(*                                                                         *)
(* A key is the sequence of its pieces: the path and name without the last *)
(* extension, then that extension when the name has one.                   *)
(***************************************************************************)
Modes == {"preview", "export", "commit"}

SourceKeys == {<<"in/people", ".csv">>, <<"in/people", ".CSV">>, <<"in/people", ".txt">>,
               <<"in/people">>}

src_bucket == "bucket"

\* df.to_csv(index=False): a missing cell is written as an empty field, the
\* others as str() prints them.
CsvField(v) == IF v = None \/ v = NaN THEN Text("") ELSE Str(v)

to_csv(frame) == [r \in DOMAIN frame |-> [c \in DOMAIN frame[r] |-> CsvField(frame[r][c])]]

\* changed_cells_serializable
Serializable(changes) ==
    [key \in DOMAIN changes |->
        [old |-> IF changes[key][1] = None THEN Text("") ELSE Str(changes[key][1]),
         new |-> IF changes[key][2] = None THEN Text("") ELSE Str(changes[key][2])]]

\* base_key.lower().endswith(".csv")
EndsWithCsv(key) == key[Len(key)] \in {".csv", ".CSV", ".Csv"}

\* A derived key that keeps whatever the source key ends with.
cleaned_key_KeepAll(key) == Append(key, "_cleaned.csv")

\* cleaned_key = f"{base_no_ext}_cleaned.csv"
cleaned_key(key) ==
    IF EndsWithCsv(key) THEN Append(SubSeq(key, 1, Len(key) - 1), "_cleaned.csv")
    ELSE Append(key, "_cleaned.csv")

Locator(bucket, key) == <<"s3://", bucket, "/">> \o key

PreviewResponseOf(frame, changes) ==
    [status |-> "success",
     preview_data |-> [csv |-> to_csv(frame), changed_cells |-> Serializable(changes)],
     download_url |-> None]

ExportResponseOf(key) ==
    [status |-> "success", preview_data |-> None,
     download_url |-> Locator(src_bucket, cleaned_key(key))]

ErrorResponse == [status |-> "error", preview_data |-> None, download_url |-> None]

\* The requests of the model: one selected Issue over a small frame.
ExportFrames ==
    {frame \in ApplyFrames :
        /\ frame[0].height \in {Meas(7000, "in", "raw"), Text("tall"), NaN}
        /\ frame[1].height = Meas(7000, "in", "raw")}

ExportIssueLists == [1 .. 1 -> ScaleIssues \cup FixIssues]

ExportInit ==
    /\ df \in ExportFrames
    /\ df_original = df
    /\ selected_issues \in ExportIssueLists
    /\ unit_preferences \in {Empty, [c \in {"height"} |-> "cm"]}
    /\ columns_to_standardize = Empty
    /\ changed_cells = Empty
    /\ fixed_cells = {}
    /\ issue_idx = 1
    /\ apply_pc = "resolve"
    /\ request_mode \in Modes
    /\ src_key \in SourceKeys
    /\ artifact_sink = <<>>
    /\ response = NoResponse

outside_export == <<orch_vars, gw_vars, geo_vars, pipe_vars, det_vars>>

apply_frozen ==
    <<df, df_original, selected_issues, unit_preferences, columns_to_standardize,
      changed_cells, fixed_cells, issue_idx>>

\* request.mode == "preview": the CSV text and the change map are returned.
ReturnPreview ==
    /\ apply_pc = "done"
    /\ request_mode = "preview"
    /\ response' = PreviewResponseOf(df, changed_cells)
    /\ apply_pc' = "returned"
    /\ UNCHANGED <<request_mode, src_key, artifact_sink>>
    /\ UNCHANGED apply_frozen
    /\ UNCHANGED outside_export

\* Any other mode: put_object of the CSV under the derived key, then the
\* response with the locator.
PutAndReturn ==
    /\ apply_pc = "done"
    /\ request_mode # "preview"
    /\ artifact_sink' = Append(artifact_sink,
                               [Bucket |-> src_bucket, Key |-> cleaned_key(src_key),
                                Body |-> to_csv(df), ContentType |-> "text/csv"])
    /\ response' = ExportResponseOf(src_key)
    /\ apply_pc' = "returned"
    /\ UNCHANGED <<request_mode, src_key>>
    /\ UNCHANGED apply_frozen
    /\ UNCHANGED outside_export

\* put_object raises: nothing is stored and the handler answers with an
\* HTTP error.
PutFails ==
    /\ apply_pc = "done"
    /\ request_mode # "preview"
    /\ response' = ErrorResponse
    /\ apply_pc' = "failed"
    /\ UNCHANGED <<request_mode, src_key, artifact_sink>>
    /\ UNCHANGED apply_frozen
    /\ UNCHANGED outside_export

ExportNext ==
    \/ ResolveUnitTargets
    \/ StandardizeColumns
    \/ ApplyIssue
    \/ FinishApply
    \/ ReturnPreview
    \/ PutAndReturn
    \/ PutFails

(***************************************************************************)
(* Properties of the modes of apply_fixes                                  *)
(***************************************************************************)
Returned == apply_pc = "returned"

\* The source key without its extension.
WithoutExtension(key) == <<key[1]>>

PreviewWritesNothing ==
    request_mode = "preview" =>
        /\ artifact_sink = <<>>
        /\ Returned => response = PreviewResponseOf(df, changed_cells)

OneWriteAt(key) ==
    /\ Len(artifact_sink) = 1
    /\ artifact_sink[1].Body = to_csv(df)
    /\ artifact_sink[1].Key = key
    /\ response.download_url = Locator(artifact_sink[1].Bucket, key)

\* C17 as stated: in preview mode apply_fixes never writes to the sink and
\* returns the serialized dataset with the ChangeMap; in export or commit
\* mode it performs exactly one write, of the full repaired dataset, at the
\* source key without its extension followed by "_cleaned.csv", and returns
\* that locator.
C17_ModesAsStated ==
    /\ PreviewWritesNothing
    /\ Returned /\ request_mode # "preview" =>
           OneWriteAt(Append(WithoutExtension(src_key), "_cleaned.csv"))

\* C17 amended: as stated, with the key formed from the source key without a
\* trailing ".csv" (in any letter case; any other ending is kept) followed
\* by "_cleaned.csv".
C17_ModesWithCsvSuffixStripped ==
    /\ PreviewWritesNothing
    /\ Returned /\ request_mode # "preview" =>
           OneWriteAt(Append(IF src_key[Len(src_key)] \in {".csv", ".CSV"}
                             THEN WithoutExtension(src_key) ELSE src_key,
                             "_cleaned.csv"))

\* An export of a repaired frame whose source key ends with ".csv" returned
\* after its one write.
C17_Witness ==
    /\ Returned
    /\ request_mode = "export"
    /\ src_key = <<"in/people", ".csv">>
    /\ changed_cells # Empty
    /\ Len(artifact_sink) = 1
    /\ artifact_sink[1].Key = <<"in/people", "_cleaned.csv">>

(***************************************************************************)
(* BaseAgent._create_issue (backend/agents/base_agent.py): the Issue an     *)
(* agent builds, with its id.  An id is the sequence of the pieces the      *)
(* f-string joins with "_"; the category is the sequence of its words.      *)
(***************************************************************************)
\* str(row_id) of an integer row_id.
RowText(row_id) == ToString(row_id[1])

\* row_id or 'dataset'
row_id_or_dataset(row_id) ==
    IF row_id = NoRow \/ row_id[1] = 0 THEN "dataset" ELSE RowText(row_id)

issue_id(category, issue_type, row_id, column, unique_id) ==
    <<category, issue_type, row_id_or_dataset(row_id), column, unique_id>>

_create_issue(agent, row_id, column, issue_type, suggested_value, unique_id) ==
    [id |-> issue_id(CategoryOf(agent), issue_type, row_id, column, unique_id),
     row_id |-> row_id,
     column |-> column,
     category |-> CategoryOf(agent),
     issue_type |-> issue_type,
     suggested_value |-> suggested_value]

MaxCreated == 2
CreatedRowIds == {NoRow, <<0>>, <<1>>, <<2>>}
CreatedColumns == {"dept", "start_date"}
CreatedTypes == {"FuzzyMapping", "DuplicateRow"}

\* str(uuid.uuid4())[:8]
UniqueIds == {"1f0c9a3e", "b7d2e4a1"}

CreateInit ==
    /\ det_rows = <<>>
    /\ det_llm = "none"
    /\ det_idx = 0
    /\ det_issues = <<>>
    /\ det_state = <<>>
    /\ det_pc = "create"

\* An agent's run builds one more Issue.
CreateIssue ==
    /\ det_pc = "create"
    /\ Len(det_issues) < MaxCreated
    /\ \E agent \in {agents[i] : i \in DOMAIN agents}, row_id \in CreatedRowIds,
          column \in CreatedColumns, issue_type \in CreatedTypes, unique_id \in UniqueIds :
          det_issues' = Append(det_issues,
                               _create_issue(agent, row_id, column, issue_type,
                                             Text("fix"), unique_id))
    /\ UNCHANGED <<det_rows, det_llm, det_idx, det_state, det_pc>>
    /\ UNCHANGED outside_det

\* The run returns its Issues.
CreateReturn ==
    /\ det_pc = "create"
    /\ det_pc' = "returned"
    /\ UNCHANGED <<det_rows, det_llm, det_idx, det_issues, det_state>>
    /\ UNCHANGED outside_det

CreateNext == CreateIssue \/ CreateReturn

(***************************************************************************)
(* Properties of the Issue id                                              *)
(***************************************************************************)
\* The id piece of the row as stated: the row_id, "dataset" for null.
RowPiece(row_id) == IF row_id = NoRow THEN "dataset" ELSE ToString(row_id[1])

IdHasForm(issue, row_piece) ==
    /\ Len(issue.id) = 5
    /\ issue.id[1] = issue.category
    /\ issue.id[2] = issue.issue_type
    /\ issue.id[3] = row_piece
    /\ issue.id[4] = issue.column
    /\ issue.id[5] \in UniqueIds

\* C26 as stated: every Issue id has the form
\* {category}_{issue_type}_{row}_{column}_{random8}, where {row} is the
\* Issue's row_id for every row-level Issue (row 0 included) and is the
\* literal "dataset" only when row_id is null.
C26_IdNamesTheRow ==
    \A i \in DOMAIN det_issues : IdHasForm(det_issues[i], RowPiece(det_issues[i].row_id))

\* The form holds with "dataset" for row 0 as for a null row_id.
C26_IdNamesTheRowButZero ==
    \A i \in DOMAIN det_issues :
        IdHasForm(det_issues[i],
                  IF det_issues[i].row_id \in {NoRow, <<0>>} THEN "dataset"
                  ELSE RowPiece(det_issues[i].row_id))

(***************************************************************************)
(* Specifications                                                          *)
(***************************************************************************)
ApplyOff ==
    /\ df = Empty
    /\ df_original = Empty
    /\ selected_issues = <<>>
    /\ unit_preferences = Empty
    /\ columns_to_standardize = Empty
    /\ changed_cells = Empty
    /\ fixed_cells = {}
    /\ issue_idx = 1
    /\ apply_pc = "off"

InitApply == ApplyInit /\ OrchOff /\ GwOff /\ GeoOff /\ PipeOff /\ DetOff /\ SinkOff

SpecApply == InitApply /\ [][ApplyNext]_vars

InitOrchestrator == OrchInit /\ ApplyOff /\ GwOff /\ GeoOff /\ PipeOff /\ DetOff /\ SinkOff

SpecOrchestrator == InitOrchestrator /\ [][OrchNext]_vars

InitGateway == GwInit /\ ApplyOff /\ OrchOff /\ GeoOff /\ PipeOff /\ DetOff /\ SinkOff

SpecGateway == InitGateway /\ [][GwNext]_vars

InitGeographic == GeoInit /\ ApplyOff /\ OrchOff /\ GwOff /\ PipeOff /\ DetOff /\ SinkOff

SpecGeographic == InitGeographic /\ [][GeoNext]_vars

InitPipeline == PipeInit /\ OrchOff /\ GwOff /\ GeoOff /\ DetOff /\ SinkOff

SpecPipeline == InitPipeline /\ [][PipeNext]_vars

InitLogic == LogicInit /\ OrchOff /\ GwOff /\ GeoOff /\ DetOff /\ SinkOff

SpecLogic == InitLogic /\ [][LogicNext]_vars

InitFormatting ==
    FormattingInit /\ ApplyOff /\ OrchOff /\ GwOff /\ GeoOff /\ PipeOff /\ SinkOff

SpecFormatting == InitFormatting /\ [][FormattingNext]_vars

InitCompany ==
    CompanyInit /\ ApplyOff /\ OrchOff /\ GwOff /\ GeoOff /\ PipeOff /\ SinkOff

SpecCompany == InitCompany /\ [][CompanyNext]_vars

InitEnrich ==
    EnrichInit /\ ApplyOff /\ OrchOff /\ GwOff /\ GeoOff /\ PipeOff /\ SinkOff

SpecEnrich == InitEnrich /\ [][EnrichNext]_vars

InitExport == ExportInit /\ OrchOff /\ GwOff /\ GeoOff /\ PipeOff /\ DetOff

SpecExport == InitExport /\ [][ExportNext]_vars

InitCreate ==
    CreateInit /\ ApplyOff /\ OrchOff /\ GwOff /\ GeoOff /\ PipeOff /\ SinkOff

SpecCreate == InitCreate /\ [][CreateNext]_vars

====
